---- MODULE Spec2Model ----
(***************************************************************************)
(* Settlement engine of the fantasy-trading game: the roster-move log,     *)
(* the holdings replay, the roster validator, direct swaps, waiver claims  *)
(* and their batch resolution, and bilateral trades.                       *)
(*                                                                         *)
(* One league of one season is modelled.  Dates are day numbers counted    *)
(* from the season's start date; an instant is a day and one of two times  *)
(* of day (12:00 UTC, inside market hours, and 20:00 UTC, after the        *)
(* close).  Rows created at the same instant carry the same createdAt.     *)
(***************************************************************************)
EXTENDS Integers, Sequences, FiniteSets, TLC

(***************************************************************************)
(* Program constants (src/src/types/game.ts, src/src/db/schema.ts).        *)
(***************************************************************************)
ROSTER_SIZE == 8
TIER_COUNT == 5
DEFAULT_BUDGET == 100
DEFAULT_FAAB_BUDGET == 100
DEFAULT_MAX_SWAPS_PER_DAY == 1
DEFAULT_MAX_SWAPS_PER_WEEK == 5

TIER_COSTS ==
  [t \in 1..TIER_COUNT |-> CASE t = 1 -> 20 [] t = 2 -> 16 [] t = 3 -> 12
                             [] t = 4 -> 8 [] OTHER -> 4]

(***************************************************************************)
(* Bounds of the model.                                                    *)
(***************************************************************************)
MaxInstant == 5
MaxClaims == 3
MaxDirectSwaps == 3
MaxProposals == 2

(***************************************************************************)
(* State.                                                                  *)
(***************************************************************************)
VARIABLES
  now,             \* the current instant
  ownershipMode,   \* leagues.ownership_mode: "UNIQUE" or "DUPLICATES"
  season,          \* the seasons row of the league: its swap limits and trade deadline
  leagueStatus,    \* leagues.status
  rosterMoves,     \* roster_moves, in (createdAt, id) order
  faabBudget,      \* teams.faab_budget
  waiverClaims,    \* waiver_claims: a set of rows
  tradeProposals,  \* trade_proposals: a set of rows
  teamDayScores,   \* team_day_scores: the set of cached rows
  priceDaily,      \* price_daily: the set of stored closes
  tradingCalendar, \* trading_calendar: the rows of the populated years
  teams,           \* teams: the ids of the teams of the league
  inFlight,        \* per caller, the call that has read and not yet written
  last             \* the most recent call and how it ended

vars ==
  <<now, ownershipMode, season, leagueStatus, rosterMoves, faabBudget, waiverClaims,
    tradeProposals, teamDayScores, priceDaily, tradingCalendar, teams, inFlight, last>>

(***************************************************************************)
(* The modelled window of time.  Day 0 is a Thursday (2026-01-08): 0 Thu,  *)
(* 1 Fri, 2 Sat, 3 Sun, 4 Mon, 5 Tue.  Each day has two instants, 12:00    *)
(* and 20:00 UTC; the market is open at 12:00 on a trading day.            *)
(***************************************************************************)
SlotsPerDay == 2
OpenSlot == 0
StartWeekday == 4
SeasonStartDate == 0
TradeDeadlineDate == 1

NoDate == 0 - 1
DayOf(instant) == instant \div SlotsPerDay
SlotOf(instant) == instant % SlotsPerDay

Instants == 0..MaxInstant
\* The dates an effective date can take: a weekend lies ahead of the last day.
Days == 0..(DayOf(MaxInstant) + 3)

\* Date.getUTCDay(): 0 is Sunday, 6 is Saturday.
getUTCDay(d) == (d + StartWeekday) % 7

\* A year of the calendar table, shortened: the years of the league's window
\* are years -1 and 0.
DaysPerYear == 20
YearOf(d) == d \div DaysPerYear
YearStart(year) == year * DaysPerYear
YearDays(year) == YearStart(year)..(YearStart(year) + DaysPerYear - 1)

\* The years whose calendar is looked up far from the league's window.
CalendarYears == 5..7

\* The bank-holiday table: New Year's Day of the years looked up; none falls
\* inside the league's window.
UK_BANK_HOLIDAYS == {YearStart(year) : year \in CalendarYears}

isTradingDayDate(d) ==
  LET day == getUTCDay(d)
      isWeekend == day = 0 \/ day = 6
  IN  ~isWeekend /\ d \notin UK_BANK_HOLIDAYS

RECURSIVE NextTradingFrom(_, _)
NextTradingFrom(key, i) ==
  IF i >= 14 THEN key
  ELSE IF isTradingDayDate(key + i) THEN key + i
  ELSE NextTradingFrom(key, i + 1)

\* generateTradingCalendarEntries: the rows of a year (the prev/next links of
\* a row are read by no lookup).
CalendarRows(year) ==
  {[date |-> d, isTradingDay |-> isTradingDayDate(d)] : d \in YearDays(year)}

MinDate(rows) == CHOOSE d \in {r.date : r \in rows} : \A r \in rows : d <= r.date
MaxDate(rows) == CHOOSE d \in {r.date : r \in rows} : \A r \in rows : d >= r.date

\* The next trading day on or after d: the first trading row of the table from
\* d on, else the weekday/holiday rule.
getNextTradingDay(d) ==
  LET rows == {r \in tradingCalendar : r.date >= d /\ r.isTradingDay}
  IN  IF rows # {} THEN MinDate(rows) ELSE NextTradingFrom(d, 0)

\* Minutes from midnight.
Minutes(hour, minute) == hour * 60 + minute
MinutesPerDay == Minutes(24, 0)

\* Europe/London: summer time begins at 01:00 UTC on a Sunday, the third day
\* of year 6, and lasts beyond the days modelled.
SummerStart == YearStart(6) + 2
LondonOffset(utcDay, utcMinute) ==
  IF utcDay > SummerStart \/ (utcDay = SummerStart /\ utcMinute >= Minutes(1, 0))
  THEN Minutes(1, 0) ELSE 0

\* The clock read as UTC whatever the season.
formatToParts_Utc(utcDay, utcMinute) == [date |-> utcDay, minutes |-> utcMinute]

\* Intl.DateTimeFormat with timeZone Europe/London, formatToParts: the London
\* date and time of day of a UTC instant.
formatToParts(utcDay, utcMinute) ==
  LET local == utcMinute + LondonOffset(utcDay, utcMinute)
  IN  [date |-> IF local >= MinutesPerDay THEN utcDay + 1 ELSE utcDay,
       minutes |-> local % MinutesPerDay]

\* isMarketOpen of the instant utcMinute minutes into the UTC day utcDay.
isMarketOpenAt(utcDay, utcMinute) ==
  LET parts == formatToParts(utcDay, utcMinute)
      weekday == getUTCDay(parts.date)
      minutesFromMidnight == parts.minutes
      marketOpenMinutes == Minutes(8, 0)
      marketCloseMinutes == Minutes(16, 30)
  IN  IF weekday = 6 \/ weekday = 0 THEN FALSE
      ELSE IF parts.date \in UK_BANK_HOLIDAYS THEN FALSE
      ELSE /\ minutesFromMidnight >= marketOpenMinutes
           /\ minutesFromMidnight < marketCloseMinutes

\* The two instants of a day: 12:00 and 20:00 UTC.
SlotMinutes(slot) == IF slot = OpenSlot THEN Minutes(12, 0) ELSE Minutes(20, 0)

isMarketOpen(instant) == isMarketOpenAt(DayOf(instant), SlotMinutes(SlotOf(instant)))

getUtcWeekStart(d) == d - ((getUTCDay(d) + 6) % 7)

\* A swap that takes effect on the day it is submitted when that is a trading day.
getNextEffectiveDate_Today(submittedAt) == getNextTradingDay(DayOf(submittedAt))

\* nextTradingDay(tomorrow)
getNextEffectiveDate(submittedAt) == getNextTradingDay(DayOf(submittedAt) + 1)

(***************************************************************************)
(* The season's frozen instrument set.  "ZZ" is a ticker that is not an    *)
(* instrument of the season.                                               *)
(***************************************************************************)
InstrumentTier ==
  [A1 |-> 1, A2 |-> 2, A3 |-> 3, A4 |-> 4, A5 |-> 5, A6 |-> 4, A7 |-> 5, A8 |-> 3,
   B1 |-> 1, B2 |-> 2, B3 |-> 3, B4 |-> 4, B5 |-> 5, B6 |-> 4, B7 |-> 5, B8 |-> 3,
   F2 |-> 2, F5 |-> 5]

Instruments == DOMAIN InstrumentTier
Tickers == Instruments \cup {"ZZ"}

TierCostOf(symbol) == TIER_COSTS[InstrumentTier[symbol]]

Teams == {"t1", "t2"}
NoTeam == "t0"
TeamIds == Teams \cup {NoTeam}

\* The callers that can have a call in progress at the same time, and the
\* state of a caller without one.
Callers == {"c1", "c2"}
NoCall == [pc |-> "idle"]
NoCalls == [c \in Callers |-> NoCall]

\* What the spec calls the game state: the facts a failed call must not touch.
facts == <<rosterMoves, waiverClaims, tradeProposals, faabBudget>>

\* The outcome of a call: its error ("" when it succeeded) and, for a waiver
\* pass, the effective date and the counts it reports.
Report(op, err, date, processed, won, lost) ==
  [op |-> op, err |-> err, effectiveDate |-> date, processedClaims |-> processed,
   wonClaims |-> won, lostClaims |-> lost]

Outcome(op, err) == Report(op, err, NoDate, 0, 0, 0)

\* No call is in an error state: the caller is free to make the next call.
Done == Outcome("ok", "")
Idle == last.err = ""

(***************************************************************************)
(* Holdings Reconstructor and Roster Validator (holdings.ts).              *)
(***************************************************************************)
\* A roster_moves row; reason stands for its metadata (SWAP, WAIVER, the
\* direction OUT or IN of a TRADE row, NONE for a DRAFT row) and tradeId for
\* metadata.tradeId, 0 on a row that no trade wrote.
Move(team, type, symbol, eff, createdAt, reason) ==
  [teamId |-> team, type |-> type, symbol |-> symbol, effectiveDate |-> eff,
   createdAt |-> createdAt, reason |-> reason, tradeId |-> 0]

\* The rows of ms with effective date d, in (createdAt, id) order.
OnDate(ms, d) == SelectSeq(ms, LAMBDA m : m.effectiveDate = d)

RECURSIVE ReplayOrderFrom(_, _, _)
ReplayOrderFrom(ms, d, upTo) ==
  IF d > upTo THEN <<>>
  ELSE OnDate(ms, d) \o ReplayOrderFrom(ms, d + 1, upTo)

\* ORDER BY effective_date, created_at, id of the rows with effective_date <= date.
ReplayOrder(ms, date) == ReplayOrderFrom(ms, 0, date)

EmptyHoldings == [s \in Tickers |-> NoDate]

\* One step of the fold of getHoldingsAtDate: a DROP row deletes the symbol,
\* every other row (DRAFT, ADD, TRADE of either direction) sets it.
ApplyMove(held, move) ==
  IF move.type = "DROP"
  THEN [held EXCEPT ![move.symbol] = NoDate]
  ELSE [held EXCEPT ![move.symbol] = move.effectiveDate]

RECURSIVE FoldMoves(_, _, _)
FoldMoves(held, ms, i) ==
  IF i > Len(ms) THEN held
  ELSE FoldMoves(ApplyMove(held, ms[i]), ms, i + 1)

TeamMoves(ms, team) == SelectSeq(ms, LAMBDA m : m.teamId = team)

\* holdingAddedDateBySymbol of getHoldingsAtDate: symbol -> added date, NoDate
\* when the symbol is not held.
HoldingAddedDate(ms, team, date) ==
  FoldMoves(EmptyHoldings, ReplayOrder(TeamMoves(ms, team), date), 1)

\* The symbols of the Holding[] that getHoldingsAtDate returns: symbols that are
\* no instrument of the season are dropped silently.
getHoldingsAtDate(ms, team, date) ==
  LET added == HoldingAddedDate(ms, team, date)
  IN  {s \in Instruments : added[s] # NoDate}

\* The symbol set that submitSwap folds inline (no instrument join).
HoldingSymbols(ms, team, date) ==
  LET added == HoldingAddedDate(ms, team, date)
  IN  {s \in Tickers : added[s] # NoDate}

RECURSIVE SumCost(_)
SumCost(S) ==
  IF S = {} THEN 0
  ELSE LET s == CHOOSE x \in S : TRUE IN TierCostOf(s) + SumCost(S \ {s})

TierCountsOf(holdings) ==
  [t \in 1..TIER_COUNT |-> Cardinality({s \in holdings : InstrumentTier[s] = t})]

\* A reason of the errors list of validateRoster: the rule that failed and,
\* for a missing tier, the tier its message names.
RosterError(rule, tier) == [rule |-> rule, tier |-> tier]

\* The errors pushed by validateRoster, in its order: size, tiers 1..5, cost.
RosterErrors(sizeError, tierCounts, costError) ==
  (IF sizeError THEN <<RosterError("size", 0)>> ELSE <<>>)
    \o SelectSeq([t \in 1..TIER_COUNT |-> RosterError("tier", t)],
                 LAMBDA e : tierCounts[e.tier] < 1)
    \o (IF costError THEN <<RosterError("cost", 0)>> ELSE <<>>)

\* A validateRoster without the rule of one holding per tier.
validateRoster_NoTierRule(holdings, budget) ==
  LET tierCounts == TierCountsOf(holdings)
      totalCost == SumCost(holdings)
      sizeError == Cardinality(holdings) # ROSTER_SIZE
      costError == totalCost > budget
      errors == RosterErrors(sizeError, [t \in 1..TIER_COUNT |-> 1], costError)
  IN  [isValid |-> Len(errors) = 0,
       errors |-> errors,
       sizeError |-> sizeError,
       missingTiers |-> {},
       costError |-> costError,
       holdingCount |-> Cardinality(holdings),
       totalCost |-> totalCost,
       tierCounts |-> tierCounts]

\* validateRoster over a set of held instruments.
validateRoster(holdings, budget) ==
  LET tierCounts == TierCountsOf(holdings)
      totalCost == SumCost(holdings)
      sizeError == Cardinality(holdings) # ROSTER_SIZE
      missingTiers == {t \in 1..TIER_COUNT : tierCounts[t] < 1}
      costError == totalCost > budget
      errors == RosterErrors(sizeError, tierCounts, costError)
  IN  [isValid |-> Len(errors) = 0,
       errors |-> errors,
       sizeError |-> sizeError,
       missingTiers |-> missingTiers,
       costError |-> costError,
       holdingCount |-> Cardinality(holdings),
       totalCost |-> totalCost,
       tierCounts |-> tierCounts]

\* The projected roster that submitSwap, processWaiverClaims and the trade
\* engine hand to validateRoster: symbols without an instrument are filtered.
ProjectedRoster(symbols) == symbols \cap Instruments

(***************************************************************************)
(* Draft (draft.ts): validatePortfolio and selectPortfolio.                *)
(***************************************************************************)
PortfolioA == <<"A1", "A2", "A3", "A4", "A5", "A6", "A7", "A8">>
PortfolioB == <<"B1", "B2", "B3", "B4", "B5", "B6", "B7", "B8">>
\* Eight known symbols without a Tier 5 instrument.
PortfolioNoTier5 == <<"A1", "A2", "A3", "A4", "A6", "A8", "F2", "B8">>

PortfolioInputs(team) ==
  IF team = "t1" THEN {PortfolioA, PortfolioNoTier5} ELSE {PortfolioA, PortfolioB}

Range(seq) == {seq[i] : i \in 1..Len(seq)}

\* The portfolio each team drafts.
ScorePortfolio == [t \in Teams |-> IF t = "t1" THEN PortfolioA ELSE PortfolioB]

DraftMovesOf(ms, team) ==
  SelectSeq(ms, LAMBDA m : m.teamId = team /\ m.type = "DRAFT")

\* Symbols with a DRAFT row of another team of the league.
DraftedByOthers(ms, team) ==
  {ms[i].symbol : i \in {j \in 1..Len(ms) : ms[j].type = "DRAFT" /\ ms[j].teamId # team}}

validatePortfolio(symbols, team) ==
  LET uniqueSymbols == Range(symbols)
      known == uniqueSymbols \cap Instruments
      tierCounts == TierCountsOf(known)
      totalCost == SumCost(known)
  IN  /\ Len(symbols) = ROSTER_SIZE
      /\ Cardinality(uniqueSymbols) = Len(symbols)
      /\ uniqueSymbols \subseteq Instruments
      /\ \A t \in 1..TIER_COUNT : tierCounts[t] >= 1
      /\ totalCost <= DEFAULT_BUDGET
      /\ (ownershipMode = "UNIQUE" =>
            uniqueSymbols \cap DraftedByOthers(rosterMoves, team) = {})

RECURSIVE DraftRows(_, _, _, _)
DraftRows(symbols, team, createdAt, i) ==
  IF i > Len(symbols) THEN <<>>
  ELSE <<Move(team, "DRAFT", symbols[i], SeasonStartDate, createdAt, "NONE")>>
         \o DraftRows(symbols, team, createdAt, i + 1)

\* The league status selectPortfolio writes, given the log after its insert.
DraftLeagueStatus(ms) ==
  IF teams # {} /\ \A t \in teams : Len(DraftMovesOf(ms, t)) >= ROSTER_SIZE
  THEN "ACTIVE" ELSE "DRAFTING"

selectPortfolioError(team, symbols) ==
  IF team \notin teams THEN "Team not found"
  ELSE IF leagueStatus \notin {"DRAFT_PENDING", "DRAFTING"}
       THEN "League is not in a draft state"
  ELSE IF Len(DraftMovesOf(rosterMoves, team)) > 0
       THEN "Team already has a submitted portfolio"
  ELSE IF ~validatePortfolio(symbols, team) THEN "Portfolio is invalid"
  ELSE ""

selectPortfolio(team, symbols) ==
  LET newMoves == rosterMoves \o DraftRows(symbols, team, now, 1)
  IN  /\ selectPortfolioError(team, symbols) = ""
      /\ rosterMoves' = newMoves
      /\ leagueStatus' = DraftLeagueStatus(newMoves)
      /\ last' = Done
      /\ UNCHANGED <<now, ownershipMode, teams, inFlight, priceDaily, tradingCalendar, season, faabBudget, waiverClaims,
                     tradeProposals, teamDayScores>>

\* A call that throws: the transaction is rolled back, the caller sees the error.
selectPortfolioFails(team, symbols) ==
  /\ selectPortfolioError(team, symbols) # ""
  /\ last' = Outcome("selectPortfolio", selectPortfolioError(team, symbols))
  /\ UNCHANGED <<now, ownershipMode, teams, inFlight, priceDaily, tradingCalendar, season, leagueStatus, rosterMoves, faabBudget,
                 waiverClaims, tradeProposals, teamDayScores>>

\* createTeam: the league exists and the user has no team in it yet.
createTeamError(league, team) ==
  IF league # "league" THEN "League not found"
  ELSE IF team \in teams THEN "User already has a team in this league"
  ELSE ""

createTeam(league, team) ==
  /\ createTeamError(league, team) = ""
  /\ teams' = teams \cup {team}
  /\ faabBudget' = [faabBudget EXCEPT ![team] = DEFAULT_FAAB_BUDGET]
  /\ last' = Done
  /\ UNCHANGED <<now, ownershipMode, inFlight, priceDaily, tradingCalendar, season, leagueStatus, rosterMoves,
                 waiverClaims, tradeProposals, teamDayScores>>

createTeamFails(league, team) ==
  /\ createTeamError(league, team) # ""
  /\ last' = Outcome("createTeam", createTeamError(league, team))
  /\ UNCHANGED <<now, ownershipMode, teams, inFlight, priceDaily, tradingCalendar, season, leagueStatus, rosterMoves,
                 faabBudget, waiverClaims, tradeProposals, teamDayScores>>

(***************************************************************************)
(* Swap Engine (swaps.ts): getRemainingSwaps and submitSwap.               *)
(***************************************************************************)
ClaimIds == 1..MaxClaims

Claim(id, team, addSymbol, dropSymbol, bid, status, eff, createdAt) ==
  [id |-> id, teamId |-> team, addSymbol |-> addSymbol, dropSymbol |-> dropSymbol,
   faabBid |-> bid, status |-> status, effectiveDate |-> eff, createdAt |-> createdAt]

InsertAt(seq, p, x) == SubSeq(seq, 1, p - 1) \o <<x>> \o SubSeq(seq, p, Len(seq))

\* Where a new row can sort among the rows of the log: row ids are random, so
\* among rows with its created_at the new row can come before or after each.
\* Only its place among the rows of its own symbol and effective date is read
\* by a replay.
InsertPositions(ms, m) ==
  {Len(ms) + 1} \cup
  {i \in 1..Len(ms) : /\ ms[i].createdAt = m.createdAt
                      /\ ms[i].symbol = m.symbol
                      /\ ms[i].effectiveDate = m.effectiveDate}

\* The logs that inserting the rows of new, one after the other, can produce.
RECURSIVE Placements(_, _, _)
Placements(ms, new, i) ==
  IF i > Len(new) THEN {ms}
  ELSE UNION {Placements(InsertAt(ms, p, new[i]), new, i + 1) :
                p \in InsertPositions(ms, new[i])}

DirectSwaps(ms) == Len(SelectSeq(ms, LAMBDA m : m.type = "ADD" /\ m.reason = "SWAP"))

\* count(*) of the team's rows created inside [fromDay, toDay].
UsedSwaps(team, fromDay, toDay) ==
  IF ownershipMode = "UNIQUE"
  THEN Cardinality({c \in waiverClaims :
                      /\ c.teamId = team
                      /\ DayOf(c.createdAt) >= fromDay
                      /\ DayOf(c.createdAt) <= toDay
                      /\ c.status # "CANCELLED"})
  ELSE Len(SelectSeq(rosterMoves, LAMBDA m :
                      /\ m.teamId = team
                      /\ m.type = "ADD"
                      /\ DayOf(m.createdAt) >= fromDay
                      /\ DayOf(m.createdAt) <= toDay))

Max(a, b) == IF a >= b THEN a ELSE b

\* Counters that look at the current day only.
getRemainingSwaps_DayOnly(team, atDate) ==
  LET day == DayOf(atDate)
      usedToday == UsedSwaps(team, day, day)
  IN  [usedToday |-> usedToday,
       usedThisWeek |-> usedToday,
       remainingToday |-> Max(season.maxSwapsPerDay - usedToday, 0),
       remainingThisWeek |-> Max(season.maxSwapsPerWeek - usedToday, 0)]

getRemainingSwaps(team, atDate) ==
  LET day == DayOf(atDate)
      weekStart == getUtcWeekStart(day)
      usedToday == UsedSwaps(team, day, day)
      usedThisWeek == UsedSwaps(team, weekStart, weekStart + 6)
  IN  [usedToday |-> usedToday,
       usedThisWeek |-> usedThisWeek,
       remainingToday |-> Max(season.maxSwapsPerDay - usedToday, 0),
       remainingThisWeek |-> Max(season.maxSwapsPerWeek - usedThisWeek, 0)]

NoOwner == "none"

\* One step of the ownerBySymbol fold of submitSwap and processWaiverClaims.
ApplyOwner(owner, move) ==
  IF move.type = "DROP"
  THEN IF owner[move.symbol] = move.teamId
       THEN [owner EXCEPT ![move.symbol] = NoOwner]
       ELSE owner
  ELSE [owner EXCEPT ![move.symbol] = move.teamId]

RECURSIVE FoldOwners(_, _, _)
FoldOwners(owner, ms, i) ==
  IF i > Len(ms) THEN owner
  ELSE FoldOwners(ApplyOwner(owner, ms[i]), ms, i + 1)

\* ownerBySymbol over the league's rows with effective date <= date.
OwnerBySymbol(ms, date) ==
  FoldOwners([s \in Tickers |-> NoOwner], ReplayOrder(ms, date), 1)

\* A submission that leaves the budget check to the resolution.
BidError_NoBudgetCheck(faabBid, remainingBudget) ==
  IF faabBid < 0 THEN "FAAB bid must be a non-negative integer" ELSE ""

\* The two checks of the bid in a UNIQUE league.

BidError(faabBid, remainingBudget) ==
  IF faabBid < 0 THEN "FAAB bid must be a non-negative integer"
  ELSE IF faabBid > remainingBudget THEN "FAAB bid exceeds remaining budget"
  ELSE ""

\* The symbols as a caller can type them, and normalizeSymbol: trim, then upper
\* case.  A ticker is its own normal form.
RawForms ==
  [a5 |-> "A5", f5 |-> "F5"] @@ (" A5 " :> "A5") @@ ("a5 " :> "A5") @@ (" F5 " :> "F5") @@ (" " :> "")
    @@ ("" :> "")
RawSymbols == DOMAIN RawForms
normalizeSymbol(value) == IF value \in RawSymbols THEN RawForms[value] ELSE value

\* The checks of submitSwap that read the database, in their order.
SwapContextError(team, dropSymbol, addSymbol, faabBid, submittedAt) ==
  LET remaining == getRemainingSwaps(team, submittedAt)
      effectiveDate == getNextEffectiveDate(submittedAt)
      holdingSymbols == HoldingSymbols(rosterMoves, team, effectiveDate)
      projectedSymbols == (holdingSymbols \ {dropSymbol}) \cup {addSymbol}
      rosterValidation == validateRoster(ProjectedRoster(projectedSymbols), DEFAULT_BUDGET)
      ownerTeamId == OwnerBySymbol(rosterMoves, effectiveDate)[addSymbol]
  IN  IF team \notin teams THEN "Team not found"
      ELSE IF leagueStatus # "ACTIVE" THEN "Swaps are only allowed in active leagues"
      ELSE IF remaining.remainingToday < 1 THEN "Daily swap limit reached"
      ELSE IF remaining.remainingThisWeek < 1 THEN "Weekly swap limit reached"
      ELSE IF dropSymbol \notin holdingSymbols THEN "Cannot drop: symbol is not currently held"
      ELSE IF addSymbol \in holdingSymbols THEN "Cannot add: symbol is already on roster"
      ELSE IF addSymbol \notin Instruments THEN "Cannot add: symbol is not in this season"
      ELSE IF ~rosterValidation.isValid THEN "Roster is invalid"
      ELSE IF ownershipMode = "UNIQUE" /\ BidError(faabBid, faabBudget[team]) # ""
           THEN BidError(faabBid, faabBudget[team])
      ELSE IF ownershipMode = "UNIQUE" /\ ownerTeamId # NoOwner /\ ownerTeamId # team
           THEN "Cannot add: symbol is already owned"
      ELSE ""

\* A submitSwap that looks at the market hours before it looks at the symbols.
submitSwapError_MarketFirst(team, inputDrop, inputAdd, faabBid, submittedAt) ==
  LET dropSymbol == normalizeSymbol(inputDrop)
      addSymbol == normalizeSymbol(inputAdd)
  IN  IF isMarketOpen(submittedAt)
      THEN "Swaps are only allowed when the market is closed"
      ELSE IF dropSymbol = "" \/ addSymbol = "" THEN "Drop and add symbols are required"
      ELSE IF dropSymbol = addSymbol THEN "Drop and add symbols must be different"
      ELSE SwapContextError(team, dropSymbol, addSymbol, faabBid, submittedAt)

submitSwapError(team, inputDrop, inputAdd, faabBid, submittedAt) ==
  LET dropSymbol == normalizeSymbol(inputDrop)
      addSymbol == normalizeSymbol(inputAdd)
  IN  IF dropSymbol = "" \/ addSymbol = "" THEN "Drop and add symbols are required"
      ELSE IF dropSymbol = addSymbol THEN "Drop and add symbols must be different"
      ELSE IF isMarketOpen(submittedAt)
           THEN "Swaps are only allowed when the market is closed"
      ELSE SwapContextError(team, dropSymbol, addSymbol, faabBid, submittedAt)

\* A direct swap that writes the ADD row and leaves the dropped symbol on the
\* roster.
submitSwap_AddOnly(team, inputDrop, inputAdd, faabBid) ==
  LET submittedAt == now
      dropSymbol == normalizeSymbol(inputDrop)
      addSymbol == normalizeSymbol(inputAdd)
      effectiveDate == getNextEffectiveDate(submittedAt)
      addMove == Move(team, "ADD", addSymbol, effectiveDate, submittedAt, "SWAP")
  IN  /\ submitSwapError(team, inputDrop, inputAdd, faabBid, submittedAt) = ""
      /\ IF ownershipMode = "UNIQUE"
         THEN /\ Cardinality(waiverClaims) < MaxClaims
              /\ \E id \in ClaimIds \ {c.id : c \in waiverClaims} :
                   waiverClaims' = waiverClaims \cup
                     {Claim(id, team, addSymbol, dropSymbol, faabBid, "PENDING",
                            effectiveDate, submittedAt)}
              /\ UNCHANGED rosterMoves
         ELSE /\ DirectSwaps(rosterMoves) < MaxDirectSwaps
              /\ rosterMoves' \in Placements(rosterMoves, <<addMove>>, 1)
              /\ UNCHANGED waiverClaims
      /\ last' = Done
      /\ UNCHANGED <<now, ownershipMode, teams, inFlight, priceDaily, tradingCalendar, season, leagueStatus, faabBudget, tradeProposals,
                     teamDayScores>>

submitSwap(team, inputDrop, inputAdd, faabBid) ==
  LET submittedAt == now
      dropSymbol == normalizeSymbol(inputDrop)
      addSymbol == normalizeSymbol(inputAdd)
      effectiveDate == getNextEffectiveDate(submittedAt)
      dropMove == Move(team, "DROP", dropSymbol, effectiveDate, submittedAt, "SWAP")
      addMove == Move(team, "ADD", addSymbol, effectiveDate, submittedAt, "SWAP")
  IN  /\ submitSwapError(team, inputDrop, inputAdd, faabBid, submittedAt) = ""
      /\ IF ownershipMode = "UNIQUE"
         THEN /\ Cardinality(waiverClaims) < MaxClaims
              /\ \E id \in ClaimIds \ {c.id : c \in waiverClaims} :
                   waiverClaims' = waiverClaims \cup
                     {Claim(id, team, addSymbol, dropSymbol, faabBid, "PENDING",
                            effectiveDate, submittedAt)}
              /\ UNCHANGED rosterMoves
         ELSE /\ DirectSwaps(rosterMoves) < MaxDirectSwaps
              /\ rosterMoves' \in Placements(rosterMoves, <<dropMove, addMove>>, 1)
              /\ UNCHANGED waiverClaims
      /\ last' = Done
      /\ UNCHANGED <<now, ownershipMode, teams, inFlight, priceDaily, tradingCalendar, season, leagueStatus, faabBudget, tradeProposals,
                     teamDayScores>>

\* submitSwap up to its last check: the context, the counters, the holdings
\* and the roster it would leave are read and found in order.
SwapReads(caller, team, inputDrop, inputAdd, faabBid) ==
  /\ inFlight[caller].pc = "idle"
  /\ IF submitSwapError(team, inputDrop, inputAdd, faabBid, now) # ""
     THEN /\ inFlight' = inFlight
          /\ last' = Outcome("submitSwap", submitSwapError(team, inputDrop, inputAdd, faabBid, now))
     ELSE /\ inFlight' = [inFlight EXCEPT ![caller] =
                            [pc |-> "submitSwap", teamId |-> team,
                             dropSymbol |-> normalizeSymbol(inputDrop),
                             addSymbol |-> normalizeSymbol(inputAdd), faabBid |-> faabBid,
                             effectiveDate |-> getNextEffectiveDate(now),
                             submittedAt |-> now, mode |-> ownershipMode]]
          /\ last' = Outcome("select", "")
  /\ UNCHANGED <<now, ownershipMode, teams, priceDaily, tradingCalendar, season, leagueStatus, rosterMoves,
                 faabBudget, waiverClaims, tradeProposals, teamDayScores>>

\* submitSwap's insert: the claim of a UNIQUE league, the DROP and ADD moves of
\* a DUPLICATES league.
SwapWrites(caller) ==
  LET call == inFlight[caller]
      dropMove == Move(call.teamId, "DROP", call.dropSymbol, call.effectiveDate,
                       call.submittedAt, "SWAP")
      addMove == Move(call.teamId, "ADD", call.addSymbol, call.effectiveDate,
                      call.submittedAt, "SWAP")
  IN  /\ call.pc = "submitSwap"
      /\ IF call.mode = "UNIQUE"
         THEN /\ Cardinality(waiverClaims) < MaxClaims
              /\ \E id \in ClaimIds \ {c.id : c \in waiverClaims} :
                   waiverClaims' = waiverClaims \cup
                     {Claim(id, call.teamId, call.addSymbol, call.dropSymbol, call.faabBid,
                            "PENDING", call.effectiveDate, call.submittedAt)}
              /\ UNCHANGED rosterMoves
         ELSE /\ rosterMoves' \in Placements(rosterMoves, <<dropMove, addMove>>, 1)
              /\ UNCHANGED waiverClaims
      /\ inFlight' = [inFlight EXCEPT ![caller] = NoCall]
      /\ last' = Outcome("submitSwap", "")
      /\ UNCHANGED <<now, ownershipMode, teams, priceDaily, tradingCalendar, season, leagueStatus, faabBudget,
                     tradeProposals, teamDayScores>>

submitSwapFails(team, dropSymbol, addSymbol, faabBid) ==
  /\ submitSwapError(team, dropSymbol, addSymbol, faabBid, now) # ""
  /\ last' = Outcome("submitSwap",
                     submitSwapError(team, dropSymbol, addSymbol, faabBid, now))
  /\ UNCHANGED <<now, ownershipMode, teams, inFlight, priceDaily, tradingCalendar, season, leagueStatus, rosterMoves, faabBudget,
                 waiverClaims, tradeProposals, teamDayScores>>

(***************************************************************************)
(* Scoring Engine and Score Cache (scoring.ts).  Points are kept in units  *)
(* of 1/10000, the precision round4 rounds to.                             *)
(***************************************************************************)
DEFAULT_SCORING_MULTIPLIER == 10
NoPrice == 0 - 1

\* The adjusted close the price provider has for a symbol and a date, NoPrice
\* when it has no bar: on the Wednesday before the window "A6" has no bar and
\* "A4" closed at zero.
ProviderClose(symbol, date) ==
  IF ~isTradingDayDate(date) THEN NoPrice
  ELSE IF date < 0 THEN (IF symbol = "A6" THEN NoPrice ELSE IF symbol = "A4" THEN 0 ELSE 100)
  ELSE IF symbol \in Range(PortfolioA) THEN 101 + date
  ELSE IF symbol \in Range(PortfolioB) THEN 102 + 2 * date
  ELSE 100 + 3 * date

\* The dates of the price ledger: from the Wednesday before the window.
PriceDates == (0 - 1)..DayOf(MaxInstant)

\* The bars of a symbol the provider returns at instant at for [from, to]: a
\* day's bar exists once its close has passed.
ProviderBars(symbol, from, to, at) ==
  {[symbol |-> symbol, date |-> d, adjClose |-> ProviderClose(symbol, d)] :
     d \in {x \in PriceDates : /\ x >= from /\ x <= to
                              /\ ProviderClose(symbol, x) # NoPrice
                              /\ at >= SlotsPerDay * x + 1}}

\* A price_daily row: a bar and the instant it was fetched at.
PriceRow(bar, fetchedAt) ==
  [symbol |-> bar.symbol, date |-> bar.date, adjClose |-> bar.adjClose,
   fetchedAt |-> fetchedAt]

SameKey(row, bar) == row.symbol = bar.symbol /\ row.date = bar.date

\* An upsert that leaves the fetch timestamp of an existing row as it was.
upsertPrices_AdjCloseOnly(table, bars, fetchedAt) ==
  {r \in table : \A b \in bars : ~SameKey(r, b)}
    \cup {PriceRow(b, IF \E r \in table : SameKey(r, b)
                      THEN (CHOOSE r \in table : SameKey(r, b)).fetchedAt
                      ELSE fetchedAt) : b \in bars}

\* insert ... on conflict (symbol, date) do update set adj_close, fetched_at.
upsertPrices(table, bars, fetchedAt) ==
  {r \in table : \A b \in bars : ~SameKey(r, b)} \cup {PriceRow(b, fetchedAt) : b \in bars}

\* price_daily after a sync at instant at that fetched every symbol.
SyncedPrices(at) ==
  upsertPrices({}, UNION {ProviderBars(symbol, 0 - 1, DayOf(at), at) : symbol \in Instruments},
               at)

\* getPriceMap(...).get(symbol): the stored close, NoPrice for undefined.
PriceDaily(symbol, date) ==
  LET rows == {r \in priceDaily : r.symbol = symbol /\ r.date = date}
  IN  IF rows = {} THEN NoPrice ELSE (CHOOSE r \in rows : TRUE).adjClose

RECURSIVE PrevTradingFrom(_, _)
PrevTradingFrom(key, i) ==
  IF i > 14 THEN key - 1
  ELSE IF isTradingDayDate(key - i) THEN key - i
  ELSE PrevTradingFrom(key, i + 1)

\* The last trading row of the table in [d - 14, d] when it is before d, else
\* the weekday/holiday rule.
getPrevTradingDay(d) ==
  LET rows == {r \in tradingCalendar : r.date >= d - 14 /\ r.date <= d /\ r.isTradingDay}
  IN  IF rows # {} /\ MaxDate(rows) < d THEN MaxDate(rows) ELSE PrevTradingFrom(d, 1)

\* Math.round(n / d) for d > 0: halves round towards plus infinity.
RoundDiv(n, d) == (2 * n + d) \div (2 * d)

\* A SymbolPoints that keeps the first-day penalty on every later day.
SymbolPoints_AlwaysPenalised(today, previous, firstDay) ==
  RoundDiv((today - previous) * 100 * DEFAULT_SCORING_MULTIPLIER * 10000, 2 * previous)

\* round4(dailyReturn * 100 * multiplier [* firstDayPenalty]), in 1/10000;
\* DEFAULT_FIRST_DAY_PENALTY is 0.5.
SymbolPoints(today, previous, firstDay) ==
  RoundDiv((today - previous) * 100 * DEFAULT_SCORING_MULTIPLIER * 10000,
           IF firstDay THEN 2 * previous ELSE previous)

\* An IsMissing that does not look at the close of the date.
IsMissing_PreviousOnly(symbol, date) ==
  \/ PriceDaily(symbol, getPrevTradingDay(date)) = NoPrice
  \/ PriceDaily(symbol, getPrevTradingDay(date)) = 0

IsMissing(symbol, date) ==
  \/ PriceDaily(symbol, date) = NoPrice
  \/ PriceDaily(symbol, getPrevTradingDay(date)) = NoPrice
  \/ PriceDaily(symbol, getPrevTradingDay(date)) = 0

RECURSIVE SumPoints(_, _)
SumPoints(S, f) ==
  IF S = {} THEN 0
  ELSE LET s == CHOOSE x \in S : TRUE IN f[s] + SumPoints(S \ {s}, f)

\* The breakdown {} of a day without a scored holding.
NoBreakdown == [s \in {} |-> 0]

\* isTradingDay: the row of the date in the calendar table, else the rule.
isTradingDay(d) ==
  LET rows == {r \in tradingCalendar : r.date = d}
  IN  IF rows # {} THEN (CHOOSE r \in rows : TRUE).isTradingDay ELSE isTradingDayDate(d)

\* A calculateTeamDay that scores a date without asking the calendar.
calculateTeamDay_NoCalendar(team, date) ==
  LET added == HoldingAddedDate(rosterMoves, team, date)
      holdings == getHoldingsAtDate(rosterMoves, team, date)
      breakdown ==
        [s \in holdings |->
           IF IsMissing(s, date) THEN 0
           ELSE SymbolPoints(PriceDaily(s, date),
                             PriceDaily(s, getPrevTradingDay(date)),
                             added[s] = date)]
  IN  [teamId |-> team, date |-> date,
       points |-> SumPoints(holdings, breakdown),
       breakdown |-> breakdown,
       missingSymbols |-> {s \in holdings : IsMissing(s, date)},
       isTradingDay |-> TRUE]

calculateTeamDay(team, date) ==
  LET added == HoldingAddedDate(rosterMoves, team, date)
      holdings == getHoldingsAtDate(rosterMoves, team, date)
      breakdown ==
        [s \in holdings |->
           IF IsMissing(s, date) THEN 0
           ELSE SymbolPoints(PriceDaily(s, date),
                             PriceDaily(s, getPrevTradingDay(date)),
                             added[s] = date)]
  IN  IF ~isTradingDay(date)
      THEN [teamId |-> team, date |-> date, points |-> 0, breakdown |-> NoBreakdown,
            missingSymbols |-> {}, isTradingDay |-> FALSE]
      ELSE [teamId |-> team, date |-> date,
            points |-> SumPoints(holdings, breakdown),
            breakdown |-> breakdown,
            missingSymbols |-> {s \in holdings : IsMissing(s, date)},
            isTradingDay |-> TRUE]

\* The team_day_scores row that cacheTeamDayScore upserts.
ScoreRow(dayScore) ==
  [teamId |-> dayScore.teamId, date |-> dayScore.date, points |-> dayScore.points,
   breakdown |-> dayScore.breakdown]

CachedRows(team, date) == {r \in teamDayScores : r.teamId = team /\ r.date = date}

ScoreDateInputs == {1}
ScoreTeamInputs == {"t1"}

\* getCachedTeamDayScore: the DayScore built from the cached row; the row keeps
\* no missing symbols and no trading-day flag.
getCachedTeamDayScore(team, date) ==
  LET row == CHOOSE r \in CachedRows(team, date) : TRUE
  IN  [teamId |-> team, date |-> date, points |-> row.points, breakdown |-> row.breakdown,
       missingSymbols |-> {}, isTradingDay |-> TRUE]

\* A cacheTeamDayScore that inserts without the conflict clause.
cacheTeamDayScore_Append(cache, dayScore) == cache \cup {ScoreRow(dayScore)}

\* cacheTeamDayScore: insert ... on conflict (team_id, date) do update.
cacheTeamDayScore(cache, dayScore) ==
  {r \in cache : ~(r.teamId = dayScore.teamId /\ r.date = dayScore.date)}
    \cup {ScoreRow(dayScore)}

\* What getOrCalculateScore returns, with the arguments of the call and
\* whether the cache served it.
ScoreReport(team, date, dayScore, cached) ==
  [op |-> "getOrCalculateScore", err |-> "", teamId |-> team, date |-> date,
   score |-> dayScore, cached |-> cached]

getOrCalculateScore(team, date, forceRecalculate) ==
  LET hit == ~forceRecalculate /\ CachedRows(team, date) # {}
      dayScore == calculateTeamDay(team, date)
  IN  /\ IF hit
         THEN /\ teamDayScores' = teamDayScores
              /\ last' = ScoreReport(team, date, getCachedTeamDayScore(team, date), TRUE)
         ELSE /\ teamDayScores' = cacheTeamDayScore(teamDayScores, dayScore)
              /\ last' = ScoreReport(team, date, dayScore, FALSE)
      /\ UNCHANGED <<now, ownershipMode, teams, inFlight, priceDaily, tradingCalendar, season, leagueStatus,
                     rosterMoves, faabBudget, waiverClaims, tradeProposals>>

\* getOrCalculateScore of one caller among others, up to its write: the cache
\* lookup and, on a miss or a forced call, calculateTeamDay.  A hit returns.
ScoreCallBegins(caller, team, date, forceRecalculate) ==
  LET hit == ~forceRecalculate /\ CachedRows(team, date) # {}
  IN  /\ inFlight[caller].pc = "idle"
      /\ IF hit
         THEN /\ inFlight' = inFlight
              /\ last' = ScoreReport(team, date, getCachedTeamDayScore(team, date), TRUE)
         ELSE /\ inFlight' = [inFlight EXCEPT ![caller] =
                               [pc |-> "cacheTeamDayScore",
                                dayScore |-> calculateTeamDay(team, date)]]
              /\ last' = Outcome("calculateTeamDay", "")
      /\ UNCHANGED <<now, ownershipMode, teams, priceDaily, tradingCalendar, season,
                     leagueStatus, rosterMoves, faabBudget, waiverClaims, tradeProposals,
                     teamDayScores>>

\* The write of that call: cacheTeamDayScore(dayScore), then the return.
ScoreCallWrites(caller) ==
  LET dayScore == inFlight[caller].dayScore
  IN  /\ inFlight[caller].pc = "cacheTeamDayScore"
      /\ teamDayScores' = cacheTeamDayScore(teamDayScores, dayScore)
      /\ inFlight' = [inFlight EXCEPT ![caller] = NoCall]
      /\ last' = ScoreReport(dayScore.teamId, dayScore.date, dayScore, FALSE)
      /\ UNCHANGED <<now, ownershipMode, teams, priceDaily, tradingCalendar, season,
                     leagueStatus, rosterMoves, faabBudget, waiverClaims, tradeProposals>>

\* A RangeDates that takes every date of the range.
RangeDates_EveryDay(startDate, endDate) == startDate..endDate

\* The dates calculateTeamRange scores: those of [startDate, endDate] with a
\* price_daily row of any symbol.
RangeDates(startDate, endDate) ==
  {r.date : r \in {x \in priceDaily : x.date >= startDate /\ x.date <= endDate}}

\* The cache after calculateTeamRange called getOrCalculateScore for each date
\* of dates: a date's call reads and writes the row of that date only.
RangeCache(cache, team, dates, forceRecalculate) ==
  {r \in cache : ~(r.teamId = team /\ r.date \in dates
                   /\ (forceRecalculate \/ CachedRows(team, r.date) = {}))}
    \cup {ScoreRow(calculateTeamDay(team, d)) :
            d \in {x \in dates : forceRecalculate \/ CachedRows(team, x) = {}}}

\* orderBy(priceDaily.date): the dates in ascending order.
RECURSIVE SortedDates(_)
SortedDates(dates) ==
  IF dates = {} THEN <<>>
  ELSE LET d == CHOOSE x \in dates : \A y \in dates : x <= y
       IN  <<d>> \o SortedDates(dates \ {d})

\* results: what getOrCalculateScore returned for each date, in that order.
RangeResults(team, dates, forceRecalculate) ==
  LET order == SortedDates(dates)
  IN  [i \in 1..Len(order) |->
         IF ~forceRecalculate /\ CachedRows(team, order[i]) # {}
         THEN getCachedTeamDayScore(team, order[i])
         ELSE calculateTeamDay(team, order[i])]

RangeReport(team, startDate, endDate, results) ==
  [op |-> "calculateTeamRange", err |-> "", teamId |-> team, startDate |-> startDate,
   endDate |-> endDate, results |-> results]

calculateTeamRange(team, startDate, endDate, forceRecalculate) ==
  LET dates == RangeDates(startDate, endDate)
  IN  /\ teamDayScores' = RangeCache(teamDayScores, team, dates, forceRecalculate)
      /\ last' = RangeReport(team, startDate, endDate,
                             RangeResults(team, dates, forceRecalculate))
      /\ UNCHANGED <<now, ownershipMode, teams, inFlight, priceDaily, tradingCalendar, season,
                     leagueStatus, rosterMoves, faabBudget, waiverClaims, tradeProposals>>

\* An InvalidatedRows that does not filter by team.
InvalidatedRows_AnyTeam(teamId, fromDate, toDate) ==
  {r \in teamDayScores :
     /\ \A d \in fromDate : r.date >= d
     /\ \A d \in toDate : r.date <= d}

\* The rows the delete of invalidateScores matches: every given filter holds.
\* An option is the set of its value, empty when the caller left it out.
InvalidatedRows(teamId, fromDate, toDate) ==
  {r \in teamDayScores :
     /\ \A t \in teamId : r.teamId = t
     /\ \A d \in fromDate : r.date >= d
     /\ \A d \in toDate : r.date <= d}

invalidateScores(teamId, fromDate, toDate) ==
  /\ teamDayScores' = teamDayScores \ InvalidatedRows(teamId, fromDate, toDate)
  /\ last' = Outcome("invalidateScores", "")
  /\ UNCHANGED <<now, ownershipMode, teams, inFlight, priceDaily, tradingCalendar, season, leagueStatus,
                 rosterMoves, faabBudget, waiverClaims, tradeProposals>>

(***************************************************************************)
(* Price Ledger sync (market-data.ts).                                     *)
(***************************************************************************)
\* DEFAULT_LOOKBACK_DAYS reaches back before the first date of the ledger.
LookbackStart == 0 - 1

\* The date the fetch of a symbol starts at: the day after its latest row.
SyncStart(symbol) ==
  LET dates == {r.date : r \in {x \in priceDaily : x.symbol = symbol}}
  IN  IF dates = {} THEN LookbackStart
      ELSE (CHOOSE d \in dates : \A e \in dates : d >= e) + 1

\* ensurePricesUpToWithReport over the instrument universe: the fetch of the
\* symbols of failed throws, the bars of the others are upserted.
ensurePricesUpToWithReport(targetDate, failed) ==
  /\ priceDaily' =
       upsertPrices(priceDaily,
                    UNION {ProviderBars(symbol, SyncStart(symbol), targetDate, now) :
                             symbol \in Instruments \ failed},
                    now)
  /\ last' = [op |-> "ensurePricesUpToWithReport", err |-> "", failedSymbols |-> failed]
  /\ UNCHANGED <<now, ownershipMode, teams, inFlight, tradingCalendar, season, leagueStatus, rosterMoves,
                 faabBudget, waiverClaims, tradeProposals, teamDayScores>>

\* The bars of a fetch after the provider restated its adjusted closes.
Restated(bars) == {[b EXCEPT !.adjClose = @ + 1] : b \in bars}

\* The report of a finished sync.
SyncReport(failed) == [op |-> "ensurePricesUpToWithReport", err |-> "", failedSymbols |-> failed]

\* The loop of ensurePricesUpToWithReport moves on to the next symbol, or the
\* call returns.
SyncContinues(caller, call) ==
  IF Len(call.symbols) > 1
  THEN /\ inFlight' = [inFlight EXCEPT ![caller] =
                         [pc |-> "lastPrice", symbols |-> Tail(call.symbols),
                          targetDate |-> call.targetDate, bars |-> {}]]
       /\ last' = Outcome("ensurePricesUpToWithReport", "")
  ELSE /\ inFlight' = [inFlight EXCEPT ![caller] = NoCall]
       /\ last' = SyncReport({})

\* A caller enters ensurePricesUpToWithReport(symbols, targetDate).
SyncCallBegins(caller, symbols, targetDate) ==
  /\ inFlight[caller].pc = "idle"
  /\ Len(symbols) > 0
  /\ inFlight' = [inFlight EXCEPT ![caller] =
                    [pc |-> "lastPrice", symbols |-> symbols, targetDate |-> targetDate,
                     bars |-> {}]]
  /\ last' = Outcome("ensurePricesUpToWithReport", "")
  /\ UNCHANGED <<now, ownershipMode, teams, priceDaily, tradingCalendar, season, leagueStatus, rosterMoves,
                 faabBudget, waiverClaims, tradeProposals, teamDayScores>>

\* The caller reads the latest stored date of the next symbol and fetches the
\* bars after it; a symbol that is up to date is skipped.
SyncFetches(caller, restated) ==
  LET call == inFlight[caller]
      symbol == Head(call.symbols)
      startDate == SyncStart(symbol)
      fetched == ProviderBars(symbol, startDate, call.targetDate, now)
      bars == IF restated THEN Restated(fetched) ELSE fetched
  IN  /\ call.pc = "lastPrice"
      /\ IF startDate > call.targetDate \/ bars = {}
         THEN SyncContinues(caller, call)
         ELSE /\ inFlight' = [inFlight EXCEPT ![caller] =
                                [pc |-> "upsert", symbols |-> call.symbols,
                                 targetDate |-> call.targetDate, bars |-> bars]]
              /\ last' = Outcome("fetchEodPrices", "")
      /\ UNCHANGED <<now, ownershipMode, teams, priceDaily, tradingCalendar, season, leagueStatus,
                     rosterMoves, faabBudget, waiverClaims, tradeProposals, teamDayScores>>

\* The caller upserts the bars it fetched.
SyncUpserts(caller) ==
  LET call == inFlight[caller]
  IN  /\ call.pc = "upsert"
      /\ priceDaily' = upsertPrices(priceDaily, call.bars, now)
      /\ SyncContinues(caller, call)
      /\ UNCHANGED <<now, ownershipMode, teams, tradingCalendar, season, leagueStatus, rosterMoves,
                     faabBudget, waiverClaims, tradeProposals, teamDayScores>>

(***************************************************************************)
(* Waiver Auction Resolver (swaps.ts): processWaiverClaims.                *)
(***************************************************************************)
TheLeague == "league"
NoLeague == "league0"

\* sum(points) of the team's cached rows with date <= effectiveDate.
RECURSIVE SumRows(_)
SumRows(rows) ==
  IF rows = {} THEN 0
  ELSE LET r == CHOOSE x \in rows : TRUE IN r.points + SumRows(rows \ {r})

StandingPoints(effectiveDate) ==
  [t \in Teams |->
     SumRows({r \in teamDayScores : r.teamId = t /\ r.date <= effectiveDate})]

\* A comparator that breaks a tie of bids in favour of the better record.
RankBefore_BetterRecordFirst(a, b, points) ==
  IF a.faabBid # b.faabBid THEN a.faabBid > b.faabBid
  ELSE IF points[a.teamId] # points[b.teamId] THEN points[a.teamId] > points[b.teamId]
  ELSE IF a.createdAt # b.createdAt THEN a.createdAt < b.createdAt
  ELSE a.id < b.id

\* The comparator of rankedClaims: a sorts before b.
RankBefore(a, b, points) ==
  IF a.faabBid # b.faabBid THEN a.faabBid > b.faabBid
  ELSE IF points[a.teamId] # points[b.teamId] THEN points[a.teamId] < points[b.teamId]
  ELSE IF a.createdAt # b.createdAt THEN a.createdAt < b.createdAt
  ELSE a.id < b.id

RECURSIVE RankClaims(_, _)
RankClaims(claims, points) ==
  IF claims = {} THEN <<>>
  ELSE LET first == CHOOSE a \in claims :
                      \A b \in claims \ {a} : RankBefore(a, b, points)
       IN  <<first>> \o RankClaims(claims \ {first}, points)

\* ORDER BY created_at, id.
CreatedBefore(a, b) ==
  IF a.createdAt # b.createdAt THEN a.createdAt < b.createdAt ELSE a.id < b.id

RECURSIVE OrderByCreated(_)
OrderByCreated(claims) ==
  IF claims = {} THEN <<>>
  ELSE LET first == CHOOSE a \in claims : \A b \in claims \ {a} : CreatedBefore(a, b)
       IN  <<first>> \o OrderByCreated(claims \ {first})

PendingClaims(effectiveDate) ==
  {c \in waiverClaims : c.status = "PENDING" /\ c.effectiveDate = effectiveDate}

\* The add-symbols of the pending claims in the order claimGroups meets them.
RECURSIVE GroupOrder(_, _, _)
GroupOrder(pending, i, seen) ==
  IF i > Len(pending) THEN <<>>
  ELSE IF pending[i].addSymbol \in seen THEN GroupOrder(pending, i + 1, seen)
  ELSE <<pending[i].addSymbol>>
         \o GroupOrder(pending, i + 1, seen \cup {pending[i].addSymbol})

\* The in-memory state of a pass before its first group.
PassStart(effectiveDate) ==
  [budget |-> faabBudget,
   holdings |-> [t \in Teams |-> HoldingSymbols(rosterMoves, t, effectiveDate)],
   owner |-> OwnerBySymbol(rosterMoves, effectiveDate),
   winners |-> <<>>,
   lost |-> {}]

\* The checks a candidate passes to win, in the in-memory state st.
CandidateWins(claim, st) ==
  /\ st.budget[claim.teamId] >= claim.faabBid
  /\ st.owner[claim.addSymbol] = NoOwner
  /\ claim.dropSymbol \in st.holdings[claim.teamId]
  /\ claim.addSymbol \notin st.holdings[claim.teamId]
  /\ validateRoster(
       ProjectedRoster((st.holdings[claim.teamId] \ {claim.dropSymbol})
                         \cup {claim.addSymbol}),
       DEFAULT_BUDGET).isValid

\* The index of the first candidate of ranked that wins, 0 when none does.
RECURSIVE FirstWinner(_, _, _)
FirstWinner(ranked, i, st) ==
  IF i > Len(ranked) THEN 0
  ELSE IF CandidateWins(ranked[i], st) THEN i
  ELSE FirstWinner(ranked, i + 1, st)

\* A resolver that credits the bid to the winner.
NewBudget_Credited(teamBudget, faabBid) == teamBudget + faabBid

\* newBudget of the winning team.
NewBudget(teamBudget, faabBid) == teamBudget - faabBid

\* A resolver that forgets the claims a winner beats.
ResolveGroup_LosersKeptPending(ranked, st) ==
  LET w == FirstWinner(ranked, 1, st)
      ids == {ranked[i].id : i \in 1..Len(ranked)}
  IN  IF w = 0 THEN [st EXCEPT !.lost = @ \cup ids]
      ELSE LET win == ranked[w]
           IN  [budget |-> [st.budget EXCEPT ![win.teamId] = NewBudget(@, win.faabBid)],
                holdings |-> [st.holdings EXCEPT ![win.teamId] =
                                (@ \ {win.dropSymbol}) \cup {win.addSymbol}],
                owner |-> [st.owner EXCEPT ![win.dropSymbol] = NoOwner,
                                           ![win.addSymbol] = win.teamId],
                winners |-> Append(st.winners, win),
                lost |-> st.lost]

\* A resolver that checks every group against the state the pass started from.
ResolveGroup_StaleMemory(ranked, st) ==
  LET w == FirstWinner(ranked, 1, st)
      ids == {ranked[i].id : i \in 1..Len(ranked)}
  IN  IF w = 0 THEN [st EXCEPT !.lost = @ \cup ids]
      ELSE [st EXCEPT !.winners = Append(@, ranked[w]),
                      !.lost = @ \cup (ids \ {ranked[w].id})]

\* One group of a pass: the winner's budget, holdings and ownership are
\* updated in memory, every other claim of the group is lost.
ResolveGroup(ranked, st) ==
  LET w == FirstWinner(ranked, 1, st)
      ids == {ranked[i].id : i \in 1..Len(ranked)}
  IN  IF w = 0 THEN [st EXCEPT !.lost = @ \cup ids]
      ELSE LET win == ranked[w]
           IN  [budget |-> [st.budget EXCEPT ![win.teamId] = NewBudget(@, win.faabBid)],
                holdings |-> [st.holdings EXCEPT ![win.teamId] =
                                (@ \ {win.dropSymbol}) \cup {win.addSymbol}],
                owner |-> [st.owner EXCEPT ![win.dropSymbol] = NoOwner,
                                           ![win.addSymbol] = win.teamId],
                winners |-> Append(st.winners, win),
                lost |-> st.lost \cup (ids \ {win.id})]

RECURSIVE ResolveGroups(_, _, _, _, _)
ResolveGroups(groups, i, pending, points, st) ==
  IF i > Len(groups) THEN st
  ELSE ResolveGroups(groups, i + 1, pending, points,
         ResolveGroup(RankClaims({c \in pending : c.addSymbol = groups[i]}, points), st))

\* claimGroups of the pass for effectiveDate, as the add-symbols in Map order.
PassGroups(effectiveDate) ==
  GroupOrder(OrderByCreated(PendingClaims(effectiveDate)), 1, {})

\* The in-memory state of the pass for effectiveDate once its first decided
\* groups are resolved.
PassAfter(effectiveDate, decided) ==
  ResolveGroups(SubSeq(PassGroups(effectiveDate), 1, decided), 1,
                PendingClaims(effectiveDate), StandingPoints(effectiveDate),
                PassStart(effectiveDate))

\* The in-memory state at the end of the pass for effectiveDate.
PassResult(effectiveDate) ==
  PassAfter(effectiveDate, Len(PassGroups(effectiveDate)))

\* The DROP and ADD rows the pass inserts, winner after winner.
RECURSIVE WaiverMoves(_, _, _, _)
WaiverMoves(winners, i, effectiveDate, createdAt) ==
  IF i > Len(winners) THEN <<>>
  ELSE <<Move(winners[i].teamId, "DROP", winners[i].dropSymbol, effectiveDate,
              createdAt, "WAIVER"),
         Move(winners[i].teamId, "ADD", winners[i].addSymbol, effectiveDate,
              createdAt, "WAIVER")>>
         \o WaiverMoves(winners, i + 1, effectiveDate, createdAt)

WithStatus(claims, ids, status) ==
  {IF c.id \in ids THEN [c EXCEPT !.status = status] ELSE c : c \in claims}

processWaiverClaimsError(league) ==
  IF league # TheLeague THEN "League not found"
  ELSE IF ownershipMode # "UNIQUE"
       THEN "Waiver processing is only used for unique leagues"
  ELSE ""

\* The rows of the three tables a pass writes.
Tables(moves, budget, claims) ==
  [rosterMoves |-> moves, faabBudget |-> budget, waiverClaims |-> claims]

\* Statements that run outside a transaction stay written when a later one
\* throws.
Rollback_None(before, written) == written

\* db.transaction when its callback throws: the statements the callback ran are
\* rolled back.
Rollback(before, written) == before

processWaiverClaims(league, date) ==
  LET res == PassResult(date)
      wonIds == {res.winners[i].id : i \in 1..Len(res.winners)}
  IN  /\ processWaiverClaimsError(league) = ""
      /\ rosterMoves' \in
           Placements(rosterMoves, WaiverMoves(res.winners, 1, date, now), 1)
      /\ faabBudget' = res.budget
      /\ waiverClaims' =
           WithStatus(WithStatus(waiverClaims, wonIds, "WON"), res.lost, "LOST")
      /\ last' = Report("processWaiverClaims", "", date,
                        Cardinality(PendingClaims(date)), Len(res.winners),
                        Cardinality(res.lost))
      /\ UNCHANGED <<now, ownershipMode, teams, inFlight, priceDaily, tradingCalendar, season, leagueStatus, tradeProposals,
                     teamDayScores>>

\* The pass throws before its first write: the league is unknown or allows
\* duplicates.
processWaiverClaimsFails(league, date) ==
  /\ processWaiverClaimsError(league) # ""
  /\ last' = Outcome("processWaiverClaims", processWaiverClaimsError(league))
  /\ UNCHANGED <<now, ownershipMode, teams, inFlight, priceDaily, tradingCalendar, season, leagueStatus, rosterMoves,
                 faabBudget, waiverClaims, tradeProposals, teamDayScores>>

\* A statement of the pass fails in the database once the first decided groups
\* are resolved and their winners written (the LOST update is the last
\* statement of a pass).  The outcome records how many winners were written.
processWaiverClaimsAborts(league, date, decided) ==
  LET res == PassAfter(date, decided)
      wonIds == {res.winners[i].id : i \in 1..Len(res.winners)}
      committed ==
        Rollback(Tables(rosterMoves, faabBudget, waiverClaims),
                 Tables(rosterMoves \o WaiverMoves(res.winners, 1, date, now),
                        res.budget, WithStatus(waiverClaims, wonIds, "WON")))
  IN  /\ processWaiverClaimsError(league) = ""
      /\ PendingClaims(date) # {}
      /\ decided <= Len(PassGroups(date))
      /\ rosterMoves' = committed.rosterMoves
      /\ faabBudget' = committed.faabBudget
      /\ waiverClaims' = committed.waiverClaims
      /\ last' = Report("processWaiverClaims", "database error", date, 0,
                        Len(res.winners), 0)
      /\ UNCHANGED <<now, ownershipMode, teams, inFlight, priceDaily, tradingCalendar, season, leagueStatus, tradeProposals,
                     teamDayScores>>

\* A cancellation that does not look at the claim's status.
cancelWaiverClaimError_AnyStatus(claimId, team) ==
  IF {c \in waiverClaims : c.id = claimId /\ c.teamId = team} = {}
  THEN "Waiver claim not found" ELSE ""

cancelWaiverClaimError(claimId, team) ==
  LET found == {c \in waiverClaims : c.id = claimId /\ c.teamId = team}
  IN  IF found = {} THEN "Waiver claim not found"
      ELSE IF \E c \in found : c.status # "PENDING"
           THEN "Only pending waiver claims can be cancelled"
      ELSE ""

cancelWaiverClaim(claimId, team) ==
  /\ cancelWaiverClaimError(claimId, team) = ""
  /\ waiverClaims' = WithStatus(waiverClaims, {claimId}, "CANCELLED")
  /\ last' = Done
  /\ UNCHANGED <<now, ownershipMode, teams, inFlight, priceDaily, tradingCalendar, season, leagueStatus, rosterMoves, faabBudget,
                 tradeProposals, teamDayScores>>

cancelWaiverClaimFails(claimId, team) ==
  /\ cancelWaiverClaimError(claimId, team) # ""
  /\ last' = Outcome("cancelWaiverClaim", cancelWaiverClaimError(claimId, team))
  /\ UNCHANGED <<now, ownershipMode, teams, inFlight, priceDaily, tradingCalendar, season, leagueStatus, rosterMoves, faabBudget,
                 waiverClaims, tradeProposals, teamDayScores>>

\* cancelWaiverClaim, its two statements: the select of the claim and the
\* checks of what it returned ...
CancelReads(caller, claimId, team) ==
  /\ inFlight[caller].pc = "idle"
  /\ IF cancelWaiverClaimError(claimId, team) # ""
     THEN /\ inFlight' = inFlight
          /\ last' = Outcome("cancelWaiverClaim", cancelWaiverClaimError(claimId, team))
     ELSE /\ inFlight' = [inFlight EXCEPT ![caller] = [pc |-> "cancelWaiverClaim", claimId |-> claimId]]
          /\ last' = Outcome("cancelWaiverClaim (select)", "")
  /\ UNCHANGED <<now, ownershipMode, teams, priceDaily, tradingCalendar, season, leagueStatus, rosterMoves,
                 faabBudget, waiverClaims, tradeProposals, teamDayScores>>

\* ... and the update of the claim's status, by id.
CancelWrites(caller) ==
  LET claimId == inFlight[caller].claimId
  IN  /\ inFlight[caller].pc = "cancelWaiverClaim"
      /\ waiverClaims' = WithStatus(waiverClaims, {claimId}, "CANCELLED")
      /\ inFlight' = [inFlight EXCEPT ![caller] = NoCall]
      /\ last' = Outcome("cancelWaiverClaim", "")
      /\ UNCHANGED <<now, ownershipMode, teams, priceDaily, tradingCalendar, season, leagueStatus, rosterMoves,
                     faabBudget, tradeProposals, teamDayScores>>

\* processWaiverClaims, the reads and the resolution in memory of its
\* transaction ...
ProcessReads(caller, league, date) ==
  LET res == PassResult(date)
  IN  /\ inFlight[caller].pc = "idle"
      /\ processWaiverClaimsError(league) = ""
      /\ PendingClaims(date) # {}
      /\ inFlight' = [inFlight EXCEPT ![caller] =
                        [pc |-> "processWaiverClaims", date |-> date, winners |-> res.winners,
                         lost |-> res.lost, budget |-> res.budget,
                         pending |-> Cardinality(PendingClaims(date))]]
      /\ last' = Outcome("processWaiverClaims (select)", "")
      /\ UNCHANGED <<now, ownershipMode, teams, priceDaily, tradingCalendar, season, leagueStatus, rosterMoves,
                     faabBudget, waiverClaims, tradeProposals, teamDayScores>>

\* ... and its writes, committed together: the moves and the budget of each
\* winner, WON and LOST by claim id.
ProcessWrites(caller) ==
  LET call == inFlight[caller]
      wonIds == {call.winners[i].id : i \in 1..Len(call.winners)}
  IN  /\ call.pc = "processWaiverClaims"
      /\ rosterMoves' \in
           Placements(rosterMoves, WaiverMoves(call.winners, 1, call.date, now), 1)
      /\ faabBudget' =
           [t \in DOMAIN faabBudget |->
              IF \E i \in 1..Len(call.winners) : call.winners[i].teamId = t
              THEN call.budget[t] ELSE faabBudget[t]]
      /\ waiverClaims' =
           WithStatus(WithStatus(waiverClaims, wonIds, "WON"), call.lost, "LOST")
      /\ inFlight' = [inFlight EXCEPT ![caller] = NoCall]
      /\ last' = Report("processWaiverClaims", "", call.date, call.pending,
                        Len(call.winners), Cardinality(call.lost))
      /\ UNCHANGED <<now, ownershipMode, teams, priceDaily, tradingCalendar, season, leagueStatus,
                     tradeProposals, teamDayScores>>

(***************************************************************************)
(* Trade Engine (trades.ts): proposeTrade and acceptTrade.                 *)
(***************************************************************************)
TradeIds == 1..MaxProposals
\* acceptTrade called without actedByTeamId.
NoActor == ""

Proposal(id, from, to, offered, requested, status, eff, createdAt, respondedAt) ==
  [id |-> id, leagueId |-> TheLeague, fromTeamId |-> from, toTeamId |-> to,
   offeredSymbols |-> offered,
   requestedSymbols |-> requested, status |-> status, effectiveDate |-> eff,
   createdAt |-> createdAt, respondedAt |-> respondedAt]

\* A league whose trade deadline is never enforced.
AfterTradeDeadline_Never(attemptedAt) == FALSE

\* assertBeforeTradeDeadline throws.
AfterTradeDeadline(attemptedAt) == DayOf(attemptedAt) > season.tradeDeadlineDate

\* The keys of the map getRosterAtEffectiveDate returns.
getRosterAtEffectiveDate(team, effectiveDate) ==
  getHoldingsAtDate(rosterMoves, team, effectiveDate)

\* projectedFromSymbols and projectedToSymbols after both loops.
ProjectedFrom(fromHoldings, offered, requested) ==
  (fromHoldings \ Range(offered)) \cup Range(requested)

ProjectedTo(toHoldings, offered, requested) ==
  ((toHoldings \cup Range(offered)) \ Range(requested))

\* The checks proposeTrade and acceptTrade share once the proposal's teams,
\* symbols and effective date are known.
TradeRosterError(from, to, offered, requested, effectiveDate, notHeldFrom, notHeldTo) ==
  LET fromHoldings == getRosterAtEffectiveDate(from, effectiveDate)
      toHoldings == getRosterAtEffectiveDate(to, effectiveDate)
  IN  IF ~(Range(offered) \subseteq fromHoldings) THEN notHeldFrom
      ELSE IF ~(Range(requested) \subseteq toHoldings) THEN notHeldTo
      ELSE IF ~validateRoster(
                  ProjectedRoster(ProjectedFrom(fromHoldings, offered, requested)),
                  DEFAULT_BUDGET).isValid
           THEN "Proposer roster invalid after trade"
      ELSE IF ~validateRoster(
                  ProjectedRoster(ProjectedTo(toHoldings, offered, requested)),
                  DEFAULT_BUDGET).isValid
           THEN "Counterparty roster invalid after trade"
      ELSE ""

proposeTradeError(from, to, offered, requested, proposedAt) ==
  IF from = to THEN "Cannot propose a trade to the same team"
  ELSE IF isMarketOpen(proposedAt)
       THEN "Trades are only allowed when the market is closed"
  ELSE IF Len(offered) = 0 \/ Len(requested) = 0
       THEN "Trade must include at least one offered and requested symbol"
  ELSE IF Range(offered) \cap Range(requested) # {}
       THEN "Symbol cannot be both offered and requested"
  ELSE IF from \notin teams THEN "From team not found"
  ELSE IF to \notin teams THEN "To team not found"
  ELSE IF leagueStatus # "ACTIVE" THEN "Trades are only allowed in active leagues"
  ELSE IF ownershipMode # "UNIQUE"
       THEN "Trades are only supported in unique ownership leagues"
  ELSE IF AfterTradeDeadline(proposedAt) THEN "Trade deadline has passed"
  ELSE TradeRosterError(from, to, offered, requested,
                        getNextTradingDay(DayOf(proposedAt)),
                        "Cannot offer: symbol is not held by proposing team",
                        "Cannot request: symbol is not held by receiving team")

proposeTrade(from, to, offered, requested) ==
  /\ proposeTradeError(from, to, offered, requested, now) = ""
  /\ Cardinality(tradeProposals) < MaxProposals
  /\ \E id \in TradeIds \ {p.id : p \in tradeProposals} :
       tradeProposals' = tradeProposals \cup
         {Proposal(id, from, to, offered, requested, "PENDING",
                   getNextTradingDay(DayOf(now)), now, NoDate)}
  /\ last' = Done
  /\ UNCHANGED <<now, ownershipMode, teams, inFlight, priceDaily, tradingCalendar, season, leagueStatus, rosterMoves,
                 faabBudget, waiverClaims, teamDayScores>>

proposeTradeFails(from, to, offered, requested) ==
  /\ proposeTradeError(from, to, offered, requested, now) # ""
  /\ last' = Outcome("proposeTrade", proposeTradeError(from, to, offered, requested, now))
  /\ UNCHANGED <<now, ownershipMode, teams, inFlight, priceDaily, tradingCalendar, season, leagueStatus, rosterMoves,
                 faabBudget, waiverClaims, tradeProposals, teamDayScores>>

\* An acceptance that trusts the checks made when the proposal was created.
acceptTradeError_NoRecheck(tradeId, actedByTeamId, acceptedAt) ==
  LET found == {p \in tradeProposals : p.id = tradeId}
      proposal == CHOOSE p \in found : TRUE
  IN  IF isMarketOpen(acceptedAt)
      THEN "Trades are only allowed when the market is closed"
      ELSE IF found = {} THEN "Trade proposal not found"
      ELSE IF proposal.status # "PENDING" THEN "Trade proposal is no longer pending"
      ELSE IF actedByTeamId # NoActor /\ actedByTeamId # proposal.toTeamId
           THEN "Only the receiving team can accept this trade"
      ELSE IF AfterTradeDeadline(acceptedAt) THEN "Trade deadline has passed"
      ELSE ""

acceptTradeError(tradeId, actedByTeamId, acceptedAt) ==
  LET found == {p \in tradeProposals : p.id = tradeId}
      proposal == CHOOSE p \in found : TRUE
  IN  IF isMarketOpen(acceptedAt)
      THEN "Trades are only allowed when the market is closed"
      ELSE IF found = {} THEN "Trade proposal not found"
      ELSE IF proposal.status # "PENDING" THEN "Trade proposal is no longer pending"
      ELSE IF actedByTeamId # NoActor /\ actedByTeamId # proposal.toTeamId
           THEN "Only the receiving team can accept this trade"
      ELSE IF AfterTradeDeadline(acceptedAt) THEN "Trade deadline has passed"
      ELSE TradeRosterError(proposal.fromTeamId, proposal.toTeamId,
                            proposal.offeredSymbols, proposal.requestedSymbols,
                            proposal.effectiveDate,
                            "Trade no longer valid: proposer no longer holds symbol",
                            "Trade no longer valid: receiving team no longer holds symbol")

\* The TRADE rows of one traded symbol: OUT for the giver, IN for the taker.
RECURSIVE TradeRows(_, _, _, _, _, _)
TradeRows(symbols, giver, taker, effectiveDate, createdAt, i) ==
  IF i > Len(symbols) THEN <<>>
  ELSE <<Move(giver, "TRADE", symbols[i], effectiveDate, createdAt, "OUT"),
         Move(taker, "TRADE", symbols[i], effectiveDate, createdAt, "IN")>>
         \o TradeRows(symbols, giver, taker, effectiveDate, createdAt, i + 1)

TradeMoves(proposal, acceptedAt) ==
  LET rows ==
        TradeRows(proposal.offeredSymbols, proposal.fromTeamId, proposal.toTeamId,
                  proposal.effectiveDate, acceptedAt, 1)
          \o TradeRows(proposal.requestedSymbols, proposal.toTeamId, proposal.fromTeamId,
                       proposal.effectiveDate, acceptedAt, 1)
  IN  [i \in 1..Len(rows) |-> [rows[i] EXCEPT !.tradeId = proposal.id]]

acceptTrade(tradeId, actedByTeamId) ==
  /\ acceptTradeError(tradeId, actedByTeamId, now) = ""
  /\ LET proposal == CHOOSE p \in tradeProposals : p.id = tradeId
     IN  /\ rosterMoves' \in Placements(rosterMoves, TradeMoves(proposal, now), 1)
         /\ tradeProposals' = (tradeProposals \ {proposal}) \cup
              {[proposal EXCEPT !.status = "ACCEPTED", !.respondedAt = now]}
  /\ last' = Done
  /\ UNCHANGED <<now, ownershipMode, teams, inFlight, priceDaily, tradingCalendar, season, leagueStatus, faabBudget,
                 waiverClaims, teamDayScores>>

\* An acceptance that inserts the TRADE rows before it validates.
acceptTradeFails_WritesFirst(tradeId, actedByTeamId) ==
  /\ acceptTradeError(tradeId, actedByTeamId, now) # ""
  /\ last' = Outcome("acceptTrade", acceptTradeError(tradeId, actedByTeamId, now))
  /\ rosterMoves' =
       rosterMoves \o
         IF \E p \in tradeProposals : p.id = tradeId
         THEN TradeMoves(CHOOSE p \in tradeProposals : p.id = tradeId, now)
         ELSE <<>>
  /\ UNCHANGED <<now, ownershipMode, teams, inFlight, priceDaily, tradingCalendar, season, leagueStatus, faabBudget,
                 waiverClaims, tradeProposals, teamDayScores>>

acceptTradeFails(tradeId, actedByTeamId) ==
  /\ acceptTradeError(tradeId, actedByTeamId, now) # ""
  /\ last' = Outcome("acceptTrade", acceptTradeError(tradeId, actedByTeamId, now))
  /\ UNCHANGED <<now, ownershipMode, teams, inFlight, priceDaily, tradingCalendar, season, leagueStatus, rosterMoves,
                 faabBudget, waiverClaims, tradeProposals, teamDayScores>>

rejectTradeError(tradeId, actedByTeamId) ==
  LET found == {p \in tradeProposals : p.id = tradeId}
      proposal == CHOOSE p \in found : TRUE
  IN  IF found = {} THEN "Trade proposal not found"
      ELSE IF proposal.status # "PENDING" THEN "Trade proposal is no longer pending"
      ELSE IF actedByTeamId # NoActor /\ actedByTeamId # proposal.toTeamId
           THEN "Only the receiving team can reject this trade"
      ELSE ""

\* The proposals table after update ... set status, respondedAt where id = tradeId.
SetResponse(proposals, ids, status, respondedAt) ==
  {IF p.id \in ids THEN [p EXCEPT !.status = status, !.respondedAt = respondedAt] ELSE p :
     p \in proposals}

rejectTrade(tradeId, actedByTeamId) ==
  /\ rejectTradeError(tradeId, actedByTeamId) = ""
  /\ tradeProposals' = SetResponse(tradeProposals, {tradeId}, "REJECTED", now)
  /\ last' = Done
  /\ UNCHANGED <<now, ownershipMode, teams, inFlight, priceDaily, tradingCalendar, season, leagueStatus, rosterMoves, faabBudget,
                 waiverClaims, teamDayScores>>

rejectTradeFails(tradeId, actedByTeamId) ==
  /\ rejectTradeError(tradeId, actedByTeamId) # ""
  /\ last' = Outcome("rejectTrade", rejectTradeError(tradeId, actedByTeamId))
  /\ UNCHANGED <<now, ownershipMode, teams, inFlight, priceDaily, tradingCalendar, season, leagueStatus, rosterMoves, faabBudget,
                 waiverClaims, tradeProposals, teamDayScores>>

\* A cancellation that does not look at the proposal's status.
cancelTradeError_AnyStatus(tradeId, fromTeamId) ==
  LET found == {p \in tradeProposals : p.id = tradeId}
      proposal == CHOOSE p \in found : TRUE
  IN  IF found = {} THEN "Trade proposal not found"
      ELSE IF proposal.fromTeamId # fromTeamId
           THEN "Only the proposing team can cancel this trade"
      ELSE ""

cancelTradeError(tradeId, fromTeamId) ==
  LET found == {p \in tradeProposals : p.id = tradeId}
      proposal == CHOOSE p \in found : TRUE
  IN  IF found = {} THEN "Trade proposal not found"
      ELSE IF proposal.status # "PENDING" THEN "Only pending proposals can be cancelled"
      ELSE IF proposal.fromTeamId # fromTeamId
           THEN "Only the proposing team can cancel this trade"
      ELSE ""

cancelTrade(tradeId, fromTeamId) ==
  /\ cancelTradeError(tradeId, fromTeamId) = ""
  /\ tradeProposals' = SetResponse(tradeProposals, {tradeId}, "CANCELLED", now)
  /\ last' = Done
  /\ UNCHANGED <<now, ownershipMode, teams, inFlight, priceDaily, tradingCalendar, season, leagueStatus, rosterMoves, faabBudget,
                 waiverClaims, teamDayScores>>

cancelTradeFails(tradeId, fromTeamId) ==
  /\ cancelTradeError(tradeId, fromTeamId) # ""
  /\ last' = Outcome("cancelTrade", cancelTradeError(tradeId, fromTeamId))
  /\ UNCHANGED <<now, ownershipMode, teams, inFlight, priceDaily, tradingCalendar, season, leagueStatus, rosterMoves, faabBudget,
                 waiverClaims, tradeProposals, teamDayScores>>

\* A second league of the same season; it has no team in the model.
OtherLeague == "league2"
Leagues == {TheLeague, OtherLeague}

\* An update that matches the rows already expired as well.
ExpiringTrades_ExpiredToo(league, today) ==
  {p \in tradeProposals : /\ p.leagueId = league
                          /\ p.status \in {"PENDING", "EXPIRED"}
                          /\ p.effectiveDate <= today}

\* The rows the update of expirePendingTrades matches once the deadline has
\* passed: pending, of the league, effective on or before today.
ExpiringTrades(league, today) ==
  {p \in tradeProposals : /\ p.leagueId = league
                          /\ p.status = "PENDING"
                          /\ p.effectiveDate <= today}

\* What expirePendingTrades reports: expiredCount, with the arguments of the call.
ExpireReport(league, atDate, expiredCount) ==
  [op |-> "expirePendingTrades", err |-> "", leagueId |-> league, atDate |-> atDate,
   expiredCount |-> expiredCount]

expirePendingTrades(league, atDate) ==
  LET today == DayOf(atDate)
      expired == IF today <= season.tradeDeadlineDate THEN {}
                 ELSE ExpiringTrades(league, today)
  IN  /\ league \in Leagues
      /\ tradeProposals' =
           SetResponse(tradeProposals, {p.id : p \in expired}, "EXPIRED", atDate)
      /\ last' = ExpireReport(league, atDate, Cardinality(expired))
      /\ UNCHANGED <<now, ownershipMode, teams, inFlight, priceDaily, tradingCalendar, season, leagueStatus, rosterMoves, faabBudget,
                     waiverClaims, teamDayScores>>

expirePendingTradesFails(league, atDate) ==
  /\ league \notin Leagues
  /\ last' = Outcome("expirePendingTrades", "League not found")
  /\ UNCHANGED <<now, ownershipMode, teams, inFlight, priceDaily, tradingCalendar, season, leagueStatus, rosterMoves, faabBudget,
                 waiverClaims, tradeProposals, teamDayScores>>

\* The select of a response to a proposal and the checks of what it returned:
\* the call throws, or goes on to its writes with the row it has read.
ResponseReads(caller, op, err, tradeId) ==
  /\ inFlight[caller].pc = "idle"
  /\ IF err # ""
     THEN /\ inFlight' = inFlight
          /\ last' = Outcome(op, err)
     ELSE /\ inFlight' = [inFlight EXCEPT ![caller] =
                            [pc |-> op, at |-> now,
                             proposal |-> CHOOSE p \in tradeProposals : p.id = tradeId]]
          /\ last' = Outcome("select", "")
  /\ UNCHANGED <<now, ownershipMode, teams, priceDaily, tradingCalendar, season, leagueStatus, rosterMoves,
                 faabBudget, waiverClaims, tradeProposals, teamDayScores>>

\* acceptTrade up to its last check.
AcceptReads(caller, tradeId, actedByTeamId) ==
  ResponseReads(caller, "acceptTrade", acceptTradeError(tradeId, actedByTeamId, now), tradeId)

\* acceptTrade from the insert of the moves to the commit.
AcceptWrites(caller) ==
  LET call == inFlight[caller]
  IN  /\ call.pc = "acceptTrade"
      /\ rosterMoves' \in Placements(rosterMoves, TradeMoves(call.proposal, call.at), 1)
      /\ tradeProposals' = SetResponse(tradeProposals, {call.proposal.id}, "ACCEPTED", call.at)
      /\ inFlight' = [inFlight EXCEPT ![caller] = NoCall]
      /\ last' = Outcome("acceptTrade", "")
      /\ UNCHANGED <<now, ownershipMode, teams, priceDaily, tradingCalendar, season, leagueStatus,
                     faabBudget, waiverClaims, teamDayScores>>

\* rejectTrade and cancelTrade up to their last check.
RejectReads(caller, tradeId, actedByTeamId) ==
  ResponseReads(caller, "rejectTrade", rejectTradeError(tradeId, actedByTeamId), tradeId)

CancelTradeReads(caller, tradeId, fromTeamId) ==
  ResponseReads(caller, "cancelTrade", cancelTradeError(tradeId, fromTeamId), tradeId)

\* The update of rejectTrade (respondedAt is rejectedAt) or of cancelTrade
\* (respondedAt is the time of the update).
StatusWrites(caller) ==
  LET call == inFlight[caller]
  IN  /\ call.pc \in {"rejectTrade", "cancelTrade"}
      /\ tradeProposals' =
           IF call.pc = "rejectTrade"
           THEN SetResponse(tradeProposals, {call.proposal.id}, "REJECTED", call.at)
           ELSE SetResponse(tradeProposals, {call.proposal.id}, "CANCELLED", now)
      /\ inFlight' = [inFlight EXCEPT ![caller] = NoCall]
      /\ last' = Outcome(call.pc, "")
      /\ UNCHANGED <<now, ownershipMode, teams, priceDaily, tradingCalendar, season, leagueStatus, rosterMoves,
                     faabBudget, waiverClaims, teamDayScores>>

(***************************************************************************)
(* Time passes.                                                            *)
(***************************************************************************)
Tick ==
  /\ now < MaxInstant
  /\ now' = now + 1
  /\ last' = Done
  /\ UNCHANGED <<ownershipMode, teams, inFlight, priceDaily, tradingCalendar, season, leagueStatus, rosterMoves, faabBudget,
                 waiverClaims, tradeProposals, teamDayScores>>

\* The seasons row: max_swaps_per_day, max_swaps_per_week, trade_deadline_date.
Season(swapsPerDay, swapsPerWeek, deadline) ==
  [maxSwapsPerDay |-> swapsPerDay, maxSwapsPerWeek |-> swapsPerWeek,
   tradeDeadlineDate |-> deadline]

\* A league of two teams right after createLeague and createTeam, in a season
\* with the given row.
NewLeagueOf(mode, seasonRow, start, prices, members) ==
  /\ now = start
  /\ priceDaily = prices
  /\ tradingCalendar = {}
  /\ teams = members
  /\ inFlight = NoCalls
  /\ ownershipMode = mode
  /\ season = seasonRow
  /\ leagueStatus = "DRAFT_PENDING"
  /\ rosterMoves = <<>>
  /\ faabBudget = [t \in Teams |-> DEFAULT_FAAB_BUDGET]
  /\ waiverClaims = {}
  /\ tradeProposals = {}
  /\ teamDayScores = {}
  /\ last = Done

\* A league with its two teams.
NewLeagueWith(mode, seasonRow, start, prices) ==
  NewLeagueOf(mode, seasonRow, start, prices, Teams)

\* The league when every close that has passed is stored.
NewLeagueIn(mode, seasonRow, start) ==
  NewLeagueWith(mode, seasonRow, start, SyncedPrices(start))

\* A league in a season with the default weekly limit and a Friday deadline.
NewLeague(mode, swapsPerDay, start) ==
  NewLeagueIn(mode, Season(swapsPerDay, DEFAULT_MAX_SWAPS_PER_WEEK, TradeDeadlineDate), start)

\* The draft is held at the instant draftAt.
Draft(draftAt) ==
  \E team \in Teams : \E symbols \in PortfolioInputs(team) :
    Idle /\ now = draftAt /\ selectPortfolio(team, symbols)

DraftFails(draftAt) ==
  \E team \in TeamIds : \E symbols \in PortfolioInputs(team) :
    Idle /\ now = draftAt /\ selectPortfolioFails(team, symbols)

(***************************************************************************)
(* The waiver auction of a UNIQUE league whose season allows two swaps a   *)
(* day, over a Saturday: claims submitted at either instant of the day     *)
(* take effect on Monday.                                                  *)
(***************************************************************************)
WaiverSwapInputs ==
  {<<"t1", "A5", "F2", 60>>, <<"t1", "A5", "F5", 60>>,
   <<"t2", "B5", "F5", 60>>, <<"t2", "B5", "F5", 40>>,
   <<"t2", "B7", "F5", 101>>}

\* Requests the model submits only when they are rejected.
WaiverRejectInputs == {<<"t1", "A7", "F5", 60>>}

WaiverDateInputs == {4}
WaiverStart == 4
\* The cancellations the model requests: <<claim id, team>>.
CancelInputs == {<<1, "t2">>}

InitWaiver == NewLeague("UNIQUE", 2, WaiverStart)

NextWaiver ==
  \/ Idle /\ Tick
  \/ Draft(WaiverStart)
  \/ \E req \in WaiverSwapInputs : Idle /\ submitSwap(req[1], req[2], req[3], req[4])
  \/ \E req \in WaiverRejectInputs :
       Idle /\ submitSwapFails(req[1], req[2], req[3], req[4])
  \/ \E team \in ScoreTeamInputs, date \in ScoreDateInputs :
       Idle /\ CachedRows(team, date) = {} /\ getOrCalculateScore(team, date, FALSE)
  \/ \E date \in WaiverDateInputs :
       Idle /\ PendingClaims(date) # {} /\ processWaiverClaims(TheLeague, date)
  \/ \E date \in WaiverDateInputs, decided \in 0..MaxClaims :
       Idle /\ processWaiverClaimsAborts(TheLeague, date, decided)
  \/ \E date \in WaiverDateInputs : Idle /\ processWaiverClaimsFails(NoLeague, date)
  \/ \E req \in CancelInputs : Idle /\ cancelWaiverClaim(req[1], req[2])
  \/ \E req \in CancelInputs : Idle /\ cancelWaiverClaimFails(req[1], req[2])

SpecWaiver == InitWaiver /\ [][NextWaiver]_vars

(***************************************************************************)
(* Trades of a UNIQUE league from Friday evening, the trade deadline, into *)
(* Saturday.                                                               *)
(***************************************************************************)
TradeInputs ==
  {<<"t1", "t2", <<"A5">>, <<"B5">>>>, <<"t2", "t1", <<"B7">>, <<"A7">>>>,
   <<"t1", "t2", <<"A1">>, <<"B5">>>>, <<"t1", "t2", <<"A5">>, <<"B1">>>>,
   <<"t1", "t2", <<"B5">>, <<"A5">>>>, <<"t1", "t2", <<"A5">>, <<"A7">>>>,
   <<"t1", "t1", <<"A5">>, <<"A7">>>>, <<"t1", "t2", <<>>, <<"B5">>>>,
   <<"t1", "t2", <<"A5">>, <<"A5">>>>, <<NoTeam, "t2", <<"A5">>, <<"B5">>>>,
   <<"t1", NoTeam, <<"A5">>, <<"B5">>>>}

TradeSwapInputs ==
  {<<"t1", "A5", "F5", 60>>, <<"t1", "A5", "F5", 101>>, <<"t1", "A5", "F5", 0 - 1>>,
   <<"t1", "A5", "A5", 40>>, <<"t1", "B5", "F5", 40>>, <<"t1", "A7", "A5", 40>>,
   <<"t1", "A5", "ZZ", 40>>, <<"t1", "A1", "F5", 40>>, <<"t1", "A5", "B5", 40>>,
   <<NoTeam, "A5", "F5", 40>>}

TradeStart == 3

InitTrade == NewLeague("UNIQUE", 1, TradeStart)

NextTrade ==
  \/ Idle /\ Tick
  \/ Draft(TradeStart)
  \/ DraftFails(TradeStart)
  \/ \E req \in TradeSwapInputs : Idle /\ submitSwapFails(req[1], req[2], req[3], req[4])
  \/ \E req \in TradeInputs : Idle /\ proposeTrade(req[1], req[2], req[3], req[4])
  \/ \E req \in TradeInputs : Idle /\ proposeTradeFails(req[1], req[2], req[3], req[4])
  \/ \E tradeId \in TradeIds, actor \in Teams \cup {NoActor} :
       Idle /\ acceptTrade(tradeId, actor)
  \/ \E tradeId \in TradeIds, actor \in Teams \cup {NoActor} :
       Idle /\ acceptTradeFails(tradeId, actor)

SpecTrade == InitTrade /\ [][NextTrade]_vars

(***************************************************************************)
(* The life of a trade proposal in a UNIQUE league whose season's trade    *)
(* deadline is the Saturday: proposals made on Friday evening take effect  *)
(* on Friday, those made on Saturday on Monday, like the waiver claims of  *)
(* either day.  One proposal is made.                                      *)
(***************************************************************************)
DealStart == 3
DealDeadline == 2
\* <<from, to, offered, requested>>
DealTradeInputs == {<<"t1", "t2", <<"A5">>, <<"B5">>>>}
\* <<team, drop symbol, add symbol, FAAB bid>>
DealSwapInputs == {<<"t1", "A5", "F5", 10>>}
DealPassDate == 4
\* The atDate a caller passes to expirePendingTrades besides the current
\* instant: Sunday 12:00.
ExpireAtInputs == {6}

InitDeal ==
  NewLeagueIn("UNIQUE", Season(1, DEFAULT_MAX_SWAPS_PER_WEEK, DealDeadline), DealStart)

NextDeal ==
  \/ Idle /\ Tick
  \/ Draft(DealStart)
  \/ \E req \in DealSwapInputs : Idle /\ submitSwap(req[1], req[2], req[3], req[4])
  \/ Idle /\ processWaiverClaims(TheLeague, DealPassDate)
  \/ \E req \in DealTradeInputs :
       Idle /\ tradeProposals = {} /\ proposeTrade(req[1], req[2], req[3], req[4])
  \/ \E req \in DealTradeInputs : Idle /\ proposeTradeFails(req[1], req[2], req[3], req[4])
  \/ \E tradeId \in TradeIds : Idle /\ acceptTrade(tradeId, "t2")
  \/ \E tradeId \in TradeIds : Idle /\ acceptTradeFails(tradeId, "t2")
  \/ \E tradeId \in TradeIds : Idle /\ rejectTrade(tradeId, "t2")
  \/ \E tradeId \in TradeIds, actor \in Teams : Idle /\ rejectTradeFails(tradeId, actor)
  \/ \E tradeId \in TradeIds : Idle /\ cancelTrade(tradeId, "t1")
  \/ \E tradeId \in TradeIds, team \in Teams : Idle /\ cancelTradeFails(tradeId, team)
  \/ \E league \in Leagues, atDate \in {now} \cup ExpireAtInputs :
       Idle /\ expirePendingTrades(league, atDate)
  \/ \E atDate \in ExpireAtInputs : Idle /\ expirePendingTradesFails(NoLeague, atDate)

SpecDeal == InitDeal /\ [][NextDeal]_vars

(***************************************************************************)
(* Swap submissions from Thursday evening to Saturday evening, in a league *)
(* of either ownership mode whose season allows one swap a day and two a   *)
(* week: Thursday's swap takes effect on Friday, Friday's and Saturday's   *)
(* on Monday.                                                              *)
(***************************************************************************)
SwapStart == 1
SwapsPerDay == 1
SwapsPerWeek == 2
\* <<team, drop symbol, add symbol, FAAB bid>>
SwapInputs ==
  {<<"t1", "A5", "F5", 10>>, <<"t1", "A7", "F5", 10>>, <<"t1", "F5", "A5", 10>>,
   <<"t2", "B5", "F5", 10>>}

InitSwap ==
  \E mode \in {"UNIQUE", "DUPLICATES"} :
    NewLeagueIn(mode, Season(SwapsPerDay, SwapsPerWeek, TradeDeadlineDate), SwapStart)

NextSwap ==
  \/ Idle /\ Tick
  \/ Draft(SwapStart)
  \/ \E req \in SwapInputs : Idle /\ submitSwap(req[1], req[2], req[3], req[4])
  \/ \E req \in SwapInputs : Idle /\ submitSwapFails(req[1], req[2], req[3], req[4])
  \/ \E claimId \in ClaimIds, team \in Teams : Idle /\ cancelWaiverClaim(claimId, team)
  \/ \E claimId \in ClaimIds, team \in Teams : Idle /\ cancelWaiverClaimFails(claimId, team)

SpecSwap == InitSwap /\ [][NextSwap]_vars

(***************************************************************************)
(* Requests that the first checks of submitSwap and proposeTrade refuse,   *)
(* made by existing and unknown teams from Thursday noon, market open and  *)
(* league not yet drafted, to Saturday evening in a UNIQUE league.         *)
(***************************************************************************)
EarlyStart == 0
EarlyDraftAt == 1
EarlySymbols == {"A5", "a5", " A5 ", "F5", "", " "}
EarlySwapInputs == {<<"t1", "a5", " F5 ", 10>>}
EarlyTradeInputs == {<<"t1", "t2", <<"A5">>, <<"B5">>>>}

InitEarly == NewLeague("UNIQUE", 2, EarlyStart)

NextEarly ==
  \/ Tick
  \/ \E team \in Teams :
       now = EarlyDraftAt /\ selectPortfolio(team, ScorePortfolio[team])
  \/ \E req \in EarlySwapInputs : submitSwap(req[1], req[2], req[3], req[4])
  \/ \E team \in TeamIds, drop \in EarlySymbols, add \in EarlySymbols :
       submitSwapFails(team, drop, add, 0)
  \/ \E req \in EarlyTradeInputs : proposeTrade(req[1], req[2], req[3], req[4])
  \/ \E from \in TeamIds, to \in TeamIds :
       proposeTradeFails(from, to, <<"A5">>, <<"B5">>)

SpecEarly == InitEarly /\ [][NextEarly]_vars

(***************************************************************************)
(* The market clock: isMarketOpen asked for instants around the session's  *)
(* open and close, in winter, on the day summer time begins and in summer, *)
(* on weekdays, a weekend and a bank holiday; and a UNIQUE league drafted  *)
(* on Thursday evening in which a swap and a trade are asked for and the   *)
(* trade is accepted at every later instant, market open or closed.        *)
(***************************************************************************)
ClockDays ==
  {0, 1, 2, 3, 4} \cup ((YearStart(6) - 1)..(SummerStart + 3))
ClockMinutes ==
  {Minutes(0, 0), Minutes(0, 30), Minutes(1, 0), Minutes(6, 59), Minutes(7, 0),
   Minutes(7, 59), Minutes(8, 0), Minutes(12, 0), Minutes(15, 29), Minutes(15, 30),
   Minutes(16, 29), Minutes(16, 30), Minutes(20, 0), Minutes(23, 0), Minutes(23, 59)}

\* A call of isMarketOpen: its argument and what it returned.
MarketOpenCall(utcDay, utcMinute) ==
  /\ last' = [op |-> "isMarketOpen", err |-> "", date |-> utcDay, minute |-> utcMinute,
              result |-> isMarketOpenAt(utcDay, utcMinute)]
  /\ UNCHANGED <<now, ownershipMode, teams, inFlight, priceDaily, tradingCalendar, season, leagueStatus,
                 rosterMoves, faabBudget, waiverClaims, tradeProposals, teamDayScores>>

InitClock == NewLeague("UNIQUE", 2, EarlyStart)

NextClock ==
  \/ Idle /\ Tick
  \/ \E utcDay \in ClockDays, utcMinute \in ClockMinutes :
       rosterMoves = <<>> /\ MarketOpenCall(utcDay, utcMinute)
  \/ \E team \in Teams :
       Idle /\ now = EarlyDraftAt /\ selectPortfolio(team, ScorePortfolio[team])
  \/ \E req \in EarlySwapInputs :
       Idle /\ waiverClaims = {} /\ submitSwap(req[1], req[2], req[3], req[4])
  \/ \E req \in EarlySwapInputs : Idle /\ submitSwapFails(req[1], req[2], req[3], req[4])
  \/ \E req \in EarlyTradeInputs :
       Idle /\ tradeProposals = {} /\ proposeTrade(req[1], req[2], req[3], req[4])
  \/ \E req \in EarlyTradeInputs : Idle /\ proposeTradeFails(req[1], req[2], req[3], req[4])
  \/ \E tradeId \in TradeIds : Idle /\ acceptTrade(tradeId, "t2")
  \/ \E tradeId \in TradeIds : Idle /\ acceptTradeFails(tradeId, "t2")

SpecClock == InitClock /\ [][NextClock]_vars

(***************************************************************************)
(* The calendar table and its lookups: any of the years can be populated,  *)
(* in any order, and the lookups are asked for every date of those years.  *)
(***************************************************************************)
CalendarDates == UNION {YearDays(year) : year \in CalendarYears}

\* populateCalendar(year): upserts the generated rows of the year.
populateCalendar(year) ==
  /\ tradingCalendar' =
       {r \in tradingCalendar : r.date \notin YearDays(year)} \cup CalendarRows(year)
  /\ last' = [op |-> "populateCalendar", err |-> "", year |-> year,
              totalDays |-> Cardinality(CalendarRows(year)),
              tradingDays |-> Cardinality({r \in CalendarRows(year) : r.isTradingDay})]
  /\ UNCHANGED <<now, ownershipMode, teams, inFlight, priceDaily, season, leagueStatus, rosterMoves,
                 faabBudget, waiverClaims, tradeProposals, teamDayScores>>

\* A call of a lookup: its argument and the date it returned.
LookupCall(op, date, result) ==
  /\ last' = [op |-> op, err |-> "", date |-> date, result |-> result]
  /\ UNCHANGED <<now, ownershipMode, teams, inFlight, priceDaily, tradingCalendar, season, leagueStatus,
                 rosterMoves, faabBudget, waiverClaims, tradeProposals, teamDayScores>>

InitCalendar ==
  NewLeagueWith("DUPLICATES", Season(1, DEFAULT_MAX_SWAPS_PER_WEEK, TradeDeadlineDate), 0, {})

NextCalendar ==
  \/ \E year \in CalendarYears : populateCalendar(year)
  \/ \E date \in CalendarDates :
       LookupCall("getNextTradingDay", date, getNextTradingDay(date))
  \/ \E date \in CalendarDates :
       LookupCall("getPrevTradingDay", date, getPrevTradingDay(date))

SpecCalendar == InitCalendar /\ [][NextCalendar]_vars

(***************************************************************************)
(* validateRoster applied to rosters around portfolio A: up to two of its  *)
(* symbols dropped and at most one other instrument added, against budgets *)
(* at, above and below the cost of the portfolio.                          *)
(***************************************************************************)
MaxDropped == 2
RosterAdds == {{}, {"B1"}, {"F2"}, {"F5"}}
RosterInputs ==
  {(Range(PortfolioA) \ dropped) \cup added :
     dropped \in {d \in SUBSET Range(PortfolioA) : Cardinality(d) <= MaxDropped},
     added \in RosterAdds}
BudgetInputs == {DEFAULT_BUDGET, SumCost(Range(PortfolioA)), SumCost(Range(PortfolioA)) - 1}

RosterInput(holdings, budget) ==
  [op |-> "rosterInput", err |-> "", holdings |-> holdings, budget |-> budget]

InitRoster ==
  /\ now = 0
  /\ priceDaily = {}
  /\ tradingCalendar = {}
  /\ teams = Teams
  /\ inFlight = NoCalls
  /\ ownershipMode = "DUPLICATES"
  /\ season = Season(1, DEFAULT_MAX_SWAPS_PER_WEEK, TradeDeadlineDate)
  /\ leagueStatus = "DRAFT_PENDING"
  /\ rosterMoves = <<>>
  /\ faabBudget = [t \in Teams |-> DEFAULT_FAAB_BUDGET]
  /\ waiverClaims = {}
  /\ tradeProposals = {}
  /\ teamDayScores = {}
  /\ last \in {RosterInput(holdings, budget) :
                  holdings \in RosterInputs, budget \in BudgetInputs}

\* The call validateRoster(holdings, budget) on the drawn input.
ValidateRosterCall ==
  /\ last.op = "rosterInput"
  /\ last' = [op |-> "validateRoster", err |-> "", holdings |-> last.holdings,
              budget |-> last.budget,
              validation |-> validateRoster(last.holdings, last.budget)]
  /\ UNCHANGED <<now, ownershipMode, teams, inFlight, priceDaily, tradingCalendar, season, leagueStatus,
                 rosterMoves, faabBudget, waiverClaims, tradeProposals, teamDayScores>>

NextRoster == ValidateRosterCall

SpecRoster == InitRoster /\ [][NextRoster]_vars

(***************************************************************************)
(* Scores of a duplicates-allowed league on Friday evening and Saturday.   *)
(* The draft is held on Friday evening with the season's start date, the   *)
(* Thursday, as effective date.  The ledger starts with the closes of      *)
(* Wednesday and Thursday; Friday's close can be fetched from the start,   *)
(* and a fetch of "A8" can fail.                                           *)
(***************************************************************************)
ScoreStart == 3
\* <<team, date>> of the scores read: Thursday, Friday and Saturday.
ScoreInputs == {<<"t1", 0>>, <<"t1", 1>>, <<"t1", 2>>, <<"t2", 0>>}
\* The symbols whose fetch can fail.
FailingSymbols == {"A8"}
\* <<teamId, fromDate, toDate>> of the invalidations.
InvalidateInputs ==
  {<<{}, {}, {}>>, <<{"t1"}, {}, {}>>, <<{"t2"}, {}, {}>>, <<{"t1"}, {1}, {}>>,
   <<{}, {}, {0}>>, <<{"t1"}, {1}, {1}>>}
InitScore ==
  NewLeagueWith("DUPLICATES", Season(1, DEFAULT_MAX_SWAPS_PER_WEEK, TradeDeadlineDate),
                ScoreStart, SyncedPrices(ScoreStart - 1))

(* The price sync of the scoring scenario runs on the evening the            *)
(* portfolios are drafted; later instants only score and invalidate.       *)
ScoreSyncEnd == ScoreStart

NextScore ==
  \/ Idle /\ Tick
  \/ \E team \in Teams :
       Idle /\ now = ScoreStart /\ selectPortfolio(team, ScorePortfolio[team])
  \/ \E failed \in SUBSET FailingSymbols :
       Idle /\ now <= ScoreSyncEnd /\ ensurePricesUpToWithReport(DayOf(now), failed)
  \/ \E req \in ScoreInputs, forceRecalculate \in BOOLEAN :
       Idle /\ getOrCalculateScore(req[1], req[2], forceRecalculate)
  \/ \E team \in {"t1"} :
       Idle /\ calculateTeamRange(team, SeasonStartDate, DayOf(now), FALSE)
  \/ \E req \in InvalidateInputs : Idle /\ invalidateScores(req[1], req[2], req[3])

SpecScore == InitScore /\ [][NextScore]_vars

(***************************************************************************)
(* Two callers of getOrCalculateScore at the same time, on Friday evening. *)
(* The draft and the fetch of Friday's closes happen while no call is in   *)
(* progress, so the source facts stay as they are during the calls.        *)
(***************************************************************************)
Quiet == \A c \in Callers : inFlight[c].pc = "idle"
RaceKeys == {<<"t1", 0>>, <<"t1", 1>>}

InitScoreRace == InitScore

NextScoreRace ==
  \/ \E team \in Teams :
       Quiet /\ now = ScoreStart /\ selectPortfolio(team, ScorePortfolio[team])
  \/ Quiet /\ ensurePricesUpToWithReport(DayOf(now), {})
  \/ \E caller \in Callers, key \in RaceKeys, forceRecalculate \in BOOLEAN :
       ScoreCallBegins(caller, key[1], key[2], forceRecalculate)
  \/ \E caller \in Callers : ScoreCallWrites(caller)

SpecScoreRace == InitScoreRace /\ [][NextScoreRace]_vars

(***************************************************************************)
(* Two callers of ensurePricesUpToWithReport for the same two symbols from *)
(* Thursday evening on: the ledger holds Wednesday's closes, Thursday's    *)
(* and later Friday's are the gap both fill, and the provider may restate  *)
(* its closes between the two fetches.                                     *)
(***************************************************************************)
SyncAt == 1
SyncEnd == 3
SyncSymbols == <<"A5", "B5">>

InitSync ==
  NewLeagueWith("DUPLICATES", Season(1, DEFAULT_MAX_SWAPS_PER_WEEK, TradeDeadlineDate),
                SyncAt, SyncedPrices(SyncAt - 1))

NextSync ==
  \/ now < SyncEnd /\ Tick
  \/ \E caller \in Callers : SyncCallBegins(caller, SyncSymbols, DayOf(now))
  \/ \E caller \in Callers, restated \in BOOLEAN : SyncFetches(caller, restated)
  \/ \E caller \in Callers : SyncUpserts(caller)

SpecSync == InitSync /\ [][NextSync]_vars

(***************************************************************************)
(* A league from its creation: teams are created, before, during and after *)
(* the draft, each drafts its portfolio, and the drafted teams ask for     *)
(* swaps on Thursday and Friday evening.                                   *)
(***************************************************************************)
DraftStart == 1
DraftEnd == 3
\* <<team, symbols>>: a valid portfolio and one that is a symbol short.
DraftInputs ==
  {<<t, ScorePortfolio[t]>> : t \in TeamIds \ {NoTeam}}
    \cup {<<"t1", SubSeq(PortfolioA, 1, 7)>>, <<NoTeam, PortfolioA>>}
DraftSwapInputs == {<<"t1", "A5", "F5", 0>>, <<"t2", "B5", "F5", 0>>}

InitDraft ==
  NewLeagueOf("DUPLICATES", Season(1, DEFAULT_MAX_SWAPS_PER_WEEK, TradeDeadlineDate),
              DraftStart, SyncedPrices(DraftStart), {})

NextDraft ==
  \/ Idle /\ now < DraftEnd /\ Tick
  \/ \E league \in {TheLeague, NoLeague}, team \in Teams : Idle /\ createTeam(league, team)
  \/ \E league \in {TheLeague, NoLeague}, team \in Teams : Idle /\ createTeamFails(league, team)
  \/ \E req \in DraftInputs : Idle /\ selectPortfolio(req[1], req[2])
  \/ \E req \in DraftInputs : Idle /\ selectPortfolioFails(req[1], req[2])
  \/ \E req \in DraftSwapInputs : Idle /\ submitSwap(req[1], req[2], req[3], req[4])
  \/ \E req \in DraftSwapInputs : Idle /\ submitSwapFails(req[1], req[2], req[3], req[4])

SpecDraft == InitDraft /\ [][NextDraft]_vars

(***************************************************************************)
(* A cancellation and a waiver pass at the same time: in a UNIQUE league   *)
(* drafted on Saturday, each team claims the free agent "F5" for Monday,   *)
(* once; one caller cancels claims while the other runs Monday's pass.     *)
(***************************************************************************)
CancelRaceStart == 4
CancelRaceDate == 4
\* <<team, drop symbol, add symbol, FAAB bid>>
CancelRaceSwaps == {<<"t1", "A5", "F5", 60>>, <<"t2", "B5", "F5", 40>>}

InitCancelRace == NewLeague("UNIQUE", 1, CancelRaceStart)

NextCancelRace ==
  \/ Quiet /\ Tick
  \/ \E team \in Teams :
       Quiet /\ now = CancelRaceStart /\ selectPortfolio(team, ScorePortfolio[team])
  \/ \E req \in CancelRaceSwaps :
       /\ Quiet /\ \A c \in waiverClaims : c.teamId # req[1]
       /\ submitSwap(req[1], req[2], req[3], req[4])
  \/ \E claimId \in ClaimIds, team \in Teams : CancelReads("c1", claimId, team)
  \/ CancelWrites("c1")
  \/ ProcessReads("c2", TheLeague, CancelRaceDate)
  \/ ProcessWrites("c2")

SpecCancelRace == InitCancelRace /\ [][NextCancelRace]_vars

(***************************************************************************)
(* Responses to one trade proposal at the same time: in a UNIQUE league    *)
(* drafted on Friday evening t1 proposes "A5" for "B5" to t2; two callers  *)
(* accept, reject or cancel it, and pending proposals are expired, until   *)
(* Saturday noon.                                                          *)
(***************************************************************************)
TradeRaceStart == 3
TradeRaceEnd == 4

InitTradeRace ==
  NewLeagueIn("UNIQUE", Season(1, DEFAULT_MAX_SWAPS_PER_WEEK, DealDeadline), TradeRaceStart)

NextTradeRace ==
  \/ Quiet /\ now < TradeRaceEnd /\ Tick
  \/ \E team \in Teams :
       Quiet /\ now = TradeRaceStart /\ selectPortfolio(team, ScorePortfolio[team])
  \/ \E req \in DealTradeInputs :
       Quiet /\ tradeProposals = {} /\ proposeTrade(req[1], req[2], req[3], req[4])
  \/ \E caller \in Callers, tradeId \in TradeIds : AcceptReads(caller, tradeId, "t2")
  \/ \E caller \in Callers : AcceptWrites(caller)
  \/ \E tradeId \in TradeIds : RejectReads("c2", tradeId, "t2")
  \/ \E tradeId \in TradeIds : CancelTradeReads("c2", tradeId, "t1")
  \/ StatusWrites("c2")
  \/ \E atDate \in {now} \cup ExpireAtInputs : expirePendingTrades(TheLeague, atDate)

SpecTradeRace == InitTradeRace /\ [][NextTradeRace]_vars

(***************************************************************************)
(* Two submitSwap calls at the same time: in a league of either ownership  *)
(* mode drafted on Thursday evening, in a season of one swap a day and two *)
(* a week, two callers ask for swaps of t1 until Friday evening.           *)
(***************************************************************************)
SwapRaceEnd == 3
\* <<team, drop symbol, add symbol, FAAB bid>>
SwapRaceInputs ==
  {<<"t1", "A5", "F5", 10>>, <<"t1", "a5 ", "F2", 10>>, <<"t1", "A7", "F5", 10>>}

InitSwapRace == InitSwap

NextSwapRace ==
  \/ Quiet /\ now < SwapRaceEnd /\ Tick
  \/ \E team \in Teams :
       Quiet /\ now = SwapStart /\ selectPortfolio(team, ScorePortfolio[team])
  \/ \E caller \in Callers, req \in SwapRaceInputs :
       SwapReads(caller, req[1], req[2], req[3], req[4])
  \/ \E caller \in Callers : SwapWrites(caller)

SpecSwapRace == InitSwapRace /\ [][NextSwapRace]_vars

(***************************************************************************)
(* Properties.  Steps are read off the outcome the call leaves in last and *)
(* off the rows that differ between the two states of the step.            *)
(***************************************************************************)
ClaimAfter(c) == CHOOSE c2 \in waiverClaims' : c2.id = c.id
BecomesWon(c) ==
  /\ c.status = "PENDING"
  /\ \E c2 \in waiverClaims' : c2.id = c.id /\ c2.status = "WON"

HasDrafted(team) == Len(DraftMovesOf(rosterMoves, team)) >= ROSTER_SIZE

\* C1: once a team has drafted, on every date from the season's start its
\* holdings reconstructed from the log are exactly 8, cover every tier and cost
\* no more than the season budget.
C1_RosterAlwaysValid ==
  \A team \in Teams : \A date \in Days :
    (HasDrafted(team) /\ date >= SeasonStartDate) =>
      validateRoster(getHoldingsAtDate(rosterMoves, team, date), DEFAULT_BUDGET).isValid

\* C2: when a proposal is accepted, at its effective date the proposer holds the
\* requested symbols and none of the offered ones, the counterparty holds the
\* offered symbols and none of the requested ones, and both rosters are valid.
C2_AcceptedTradeSwapsHoldings ==
  [][\A p \in tradeProposals :
       (/\ p.status = "PENDING"
        /\ \E q \in tradeProposals' : q.id = p.id /\ q.status = "ACCEPTED") =>
         LET proposer == getHoldingsAtDate(rosterMoves', p.fromTeamId, p.effectiveDate)
             receiver == getHoldingsAtDate(rosterMoves', p.toTeamId, p.effectiveDate)
         IN  /\ Range(p.requestedSymbols) \subseteq proposer
             /\ Range(p.offeredSymbols) \cap proposer = {}
             /\ Range(p.offeredSymbols) \subseteq receiver
             /\ Range(p.requestedSymbols) \cap receiver = {}
             /\ validateRoster(proposer, DEFAULT_BUDGET).isValid
             /\ validateRoster(receiver, DEFAULT_BUDGET).isValid]_vars

\* The claims a pass for c's effective date reads, and c's group among them.
PendingWith(c) ==
  {x \in waiverClaims : x.status = "PENDING" /\ x.effectiveDate = c.effectiveDate}

GroupOf(c) == {x \in PendingWith(c) : x.addSymbol = c.addSymbol}

SubmittedBefore(a, b) ==
  \/ a.createdAt < b.createdAt
  \/ a.createdAt = b.createdAt /\ a.id < b.id

\* A pass reaches a group when it reaches the group's earliest claim.
GroupHead(c) ==
  CHOOSE x \in GroupOf(c) : \A y \in GroupOf(c) \ {x} : SubmittedBefore(x, y)

GroupBefore(c, w) ==
  c.addSymbol # w.addSymbol /\ SubmittedBefore(GroupHead(c), GroupHead(w))

\* The strict total order of the candidates of a group: bid descending, standing
\* points ascending, submission time ascending, claim id ascending.
Outranks(a, b) ==
  LET points == StandingPoints(a.effectiveDate)
  IN  \/ a.faabBid > b.faabBid
      \/ /\ a.faabBid = b.faabBid
         /\ points[a.teamId] < points[b.teamId]
      \/ /\ a.faabBid = b.faabBid
         /\ points[a.teamId] = points[b.teamId]
         /\ a.createdAt < b.createdAt
      \/ /\ a.faabBid = b.faabBid
         /\ points[a.teamId] = points[b.teamId]
         /\ a.createdAt = b.createdAt
         /\ a.id < b.id

\* Budgets, holdings and owners once the winners of the step in the groups
\* before w's group are applied, group after group.
RECURSIVE MemoryAfter(_, _)
MemoryAfter(winners, st) ==
  IF winners = {} THEN st
  ELSE LET first == CHOOSE x \in winners : \A y \in winners \ {x} : GroupBefore(x, y)
       IN  MemoryAfter(winners \ {first},
             [budget |-> [st.budget EXCEPT ![first.teamId] = @ - first.faabBid],
              holdings |-> [st.holdings EXCEPT ![first.teamId] =
                              (@ \ {first.dropSymbol}) \cup {first.addSymbol}],
              owner |-> [st.owner EXCEPT ![first.dropSymbol] = NoOwner,
                                         ![first.addSymbol] = first.teamId]])

MemoryBefore(w) ==
  MemoryAfter({c \in PendingWith(w) : BecomesWon(c) /\ GroupBefore(c, w)},
              [budget |-> faabBudget,
               holdings |-> [t \in Teams |->
                               HoldingSymbols(rosterMoves, t, w.effectiveDate)],
               owner |-> OwnerBySymbol(rosterMoves, w.effectiveDate)])

PassesAllChecks(c, st) ==
  /\ st.budget[c.teamId] >= c.faabBid
  /\ \A t \in Teams : st.owner[c.addSymbol] # t
  /\ c.dropSymbol \in st.holdings[c.teamId]
  /\ c.addSymbol \notin st.holdings[c.teamId]
  /\ validateRoster(((st.holdings[c.teamId] \ {c.dropSymbol}) \cup {c.addSymbol})
                      \cap Instruments, DEFAULT_BUDGET).isValid

\* C3: the claim a pass marks WON passes every check, and every claim of its
\* group that outranks it (bid descending, standing points ascending, submission
\* time ascending, id ascending) fails one.
C3_WinnerIsFirstValidInRanking ==
  [][\A w \in waiverClaims :
       BecomesWon(w) =>
         /\ PassesAllChecks(w, MemoryBefore(w))
         /\ \A b \in GroupOf(w) \ {w} :
              Outranks(b, w) => ~PassesAllChecks(b, MemoryBefore(w))]_vars

\* C3 witness: a pass over three claims chose a winner whose group holds a lost
\* claim with a higher bid.
C3_Witness ==
  /\ last.op = "processWaiverClaims" /\ last.err = "" /\ last.processedClaims = 3
  /\ \E w, b \in waiverClaims :
       /\ w.status = "WON" /\ b.status = "LOST"
       /\ w.addSymbol = b.addSymbol /\ w.effectiveDate = b.effectiveDate
       /\ b.faabBid > w.faabBid

\* The claims a pass for date reads, and what the step made of them.
PendingOn(date) ==
  {c \in waiverClaims : c.status = "PENDING" /\ c.effectiveDate = date}

TurnedInto(claims, status) == {c \in claims : ClaimAfter(c).status = status}

\* C4: after a pass for a date no claim of that date is PENDING, every claim
\* that was is WON or LOST, no add-symbol has two winners, a group without a
\* valid candidate is lost as a whole, and the report counts the pending claims
\* as the won plus the lost ones.
C4_PassSettlesEveryPendingClaim ==
  [][(last'.op = "processWaiverClaims" /\ last'.err = "") =>
       LET pending == PendingOn(last'.effectiveDate)
           won == TurnedInto(pending, "WON")
           lost == TurnedInto(pending, "LOST")
       IN  /\ \A c \in waiverClaims' :
                c.effectiveDate = last'.effectiveDate => c.status # "PENDING"
           /\ pending = won \cup lost
           /\ \A a, b \in won : a.addSymbol = b.addSymbol => a = b
           /\ \A c \in pending :
                (\A x \in GroupOf(c) : ~PassesAllChecks(x, MemoryBefore(c)))
                  => GroupOf(c) \subseteq lost
           /\ last'.processedClaims = Cardinality(pending)
           /\ last'.wonClaims = Cardinality(won)
           /\ last'.lostClaims = Cardinality(lost)
           /\ last'.processedClaims = last'.wonClaims + last'.lostClaims]_vars

\* C4 witness: a pass settled two claims, one won and one lost, and the lost
\* one's add-symbol has no winner.
C4_Witness ==
  /\ last.op = "processWaiverClaims" /\ last.err = ""
  /\ last.processedClaims = 2 /\ last.wonClaims = 1 /\ last.lostClaims = 1
  /\ \E c \in waiverClaims :
       /\ c.status = "LOST" /\ c.effectiveDate = last.effectiveDate
       /\ \A w \in waiverClaims : w.status = "WON" => w.addSymbol # c.addSymbol

\* C5: a claim is marked WON only if it passes every check in the state that
\* holds the earlier winners of the pass, so a team whose two pending claims bid
\* more than its budget together, or drop the same symbol, wins at most one.
C5_WonOnlyIfValidAfterEarlierWinners ==
  [][/\ \A w \in waiverClaims :
          BecomesWon(w) => PassesAllChecks(w, MemoryBefore(w))
     /\ \A a, b \in waiverClaims :
          (/\ a # b /\ a.teamId = b.teamId
           /\ a.status = "PENDING" /\ b.status = "PENDING"
           /\ a.effectiveDate = b.effectiveDate
           /\ \/ a.faabBid + b.faabBid > faabBudget[a.teamId]
              \/ a.dropSymbol = b.dropSymbol)
            => ~(BecomesWon(a) /\ BecomesWon(b))]_vars

\* C5 witness: one pass read exactly two claims of one team, for different
\* symbols, with the same drop-symbol and bids above the budget together: one
\* won, one lost.
C5_Witness ==
  /\ last.op = "processWaiverClaims" /\ last.err = ""
  /\ last.processedClaims = 2 /\ Cardinality(waiverClaims) = 2
  /\ \E a, b \in waiverClaims :
       /\ a.status = "WON" /\ b.status = "LOST"
       /\ a.teamId = b.teamId /\ a.addSymbol # b.addSymbol
       /\ a.dropSymbol = b.dropSymbol
       /\ a.faabBid + b.faabBid > DEFAULT_FAAB_BUDGET

RECURSIVE SumBids(_)
SumBids(claims) ==
  IF claims = {} THEN 0
  ELSE LET c == CHOOSE x \in claims : TRUE IN c.faabBid + SumBids(claims \ {c})

\* C6: a team's remaining budget is never negative, never increases, and is the
\* initial budget minus the bids of its WON claims.
C6_BudgetIsInitialMinusWonBids ==
  [][\A t \in Teams :
       /\ faabBudget'[t] >= 0
       /\ faabBudget'[t] <= faabBudget[t]
       /\ faabBudget'[t] = DEFAULT_FAAB_BUDGET -
            SumBids({c \in waiverClaims' : c.teamId = t /\ c.status = "WON"})]_vars

\* C6 witness: both teams have won a claim and paid for it.
C6_Witness ==
  /\ \A t \in Teams : faabBudget[t] < DEFAULT_FAAB_BUDGET
  /\ \A t \in Teams : \E c \in waiverClaims : c.teamId = t /\ c.status = "WON"

\* C7: a submission whose bid exceeds the team's remaining budget is rejected
\* and inserts no claim: no claim enters the table with a bid above the budget
\* its team has at that moment.
C7_BidAboveBudgetRejectedAtSubmission ==
  [][/\ (last'.op = "submitSwap" /\ last'.err = "FAAB bid exceeds remaining budget")
          => waiverClaims' = waiverClaims
     /\ \A c \in waiverClaims' :
          (\A old \in waiverClaims : old.id # c.id)
            => c.status = "PENDING" /\ c.faabBid <= faabBudget[c.teamId]]_vars

\* C7 witness: a team that has paid for a won claim is refused a bid above what
\* it has left.
C7_Witness ==
  /\ last.op = "submitSwap" /\ last.err = "FAAB bid exceeds remaining budget"
  /\ faabBudget["t1"] < 60
  /\ ownershipMode = "UNIQUE"

\* C8: a pass that fails, after any number of groups, leaves the log, the
\* budgets and the claims as they were before the call.
C8_FailedPassChangesNothing ==
  [][(last'.op = "processWaiverClaims" /\ last'.err # "") =>
       /\ rosterMoves' = rosterMoves
       /\ faabBudget' = faabBudget
       /\ waiverClaims' = waiverClaims]_vars

\* C8 witness: a pass failed after it had written a winner, and the claims of
\* its date are still pending.
C8_Witness ==
  /\ last.op = "processWaiverClaims" /\ last.err = "database error"
  /\ last.wonClaims >= 1
  /\ \E c \in waiverClaims :
       c.status = "PENDING" /\ c.effectiveDate = last.effectiveDate
  /\ \A c \in waiverClaims : c.status # "WON"

\* C9: a submitSwap, proposeTrade or acceptTrade call that ends in an error
\* leaves the log, the claims, the proposals and the budgets as they were.
C9_FailedCallChangesNothing ==
  [][(last'.err # "" /\ last'.op \in {"submitSwap", "proposeTrade", "acceptTrade"})
       => facts' = facts]_vars

\* C9 witness: an acceptance by the proposing team was refused while the
\* proposal was pending.
C9_Witness ==
  /\ last.op = "acceptTrade"
  /\ last.err = "Only the receiving team can accept this trade"
  /\ \E p \in tradeProposals : p.status = "PENDING"
  /\ rosterMoves # <<>>

\* C10: a claim's status only moves from PENDING to WON, LOST or CANCELLED and
\* then stays, no other field of a claim changes, no claim disappears, and a
\* cancellation of a claim that is not PENDING fails.
C10_ClaimStatusOnlyLeavesPending ==
  [][/\ \A c \in waiverClaims :
          \E c2 \in waiverClaims' :
            /\ c2.id = c.id
            /\ [c2 EXCEPT !.status = c.status] = c
            /\ \/ c2.status = c.status
               \/ c.status = "PENDING" /\ c2.status \in {"WON", "LOST", "CANCELLED"}
     /\ \A c \in waiverClaims' : \A d \in waiverClaims' : c.id = d.id => c = d
     /\ (last'.op = "cancelWaiverClaim" /\ last'.err = "")
          => \E c \in waiverClaims :
               c.status = "PENDING" /\ ClaimAfter(c).status = "CANCELLED"]_vars

\* C10 witness: the cancellation of a claim that a pass had settled was refused.
C10_Witness ==
  /\ last.op = "cancelWaiverClaim"
  /\ last.err = "Only pending waiver claims can be cancelled"
  /\ \E c \in waiverClaims : c.id = 1 /\ c.teamId = "t2" /\ c.status = "WON"

\* The TRADE rows of the log that carry the id of proposal p.
TradeRowsOf(ms, p) ==
  {i \in 1..Len(ms) : ms[i].type = "TRADE" /\ ms[i].tradeId = p.id}

NotPending(tradeId) ==
  \E p \in tradeProposals : p.id = tradeId /\ p.status # "PENDING"

\* In every state: the log holds TRADE rows of a proposal exactly when the
\* proposal is ACCEPTED, and every TRADE row belongs to a proposal.
TradeRowsIffAccepted ==
  /\ \A p \in tradeProposals :
       (TradeRowsOf(rosterMoves, p) # {}) <=> (p.status = "ACCEPTED")
  /\ \A i \in 1..Len(rosterMoves) :
       rosterMoves[i].type = "TRADE" =>
         \E p \in tradeProposals : p.id = rosterMoves[i].tradeId

\* In every step: a proposal stays, with its status unchanged or moved from
\* PENDING to a final status, and no call accepts, rejects or cancels a
\* proposal that is not PENDING: such a call fails and changes nothing.
TradeStatusStep ==
  /\ \A p \in tradeProposals :
       \E q \in tradeProposals' :
         /\ q.id = p.id
         /\ \/ q = p
            \/ /\ p.status = "PENDING"
               /\ q.status \in {"ACCEPTED", "REJECTED", "CANCELLED", "EXPIRED"}
  /\ \A tradeId \in TradeIds : \A team \in Teams \cup {NoActor} :
       NotPending(tradeId) =>
         /\ acceptTradeError(tradeId, team, now) # ""
         /\ rejectTradeError(tradeId, team) # ""
         /\ cancelTradeError(tradeId, team) # ""
         /\ ~acceptTrade(tradeId, team)
         /\ ~rejectTrade(tradeId, team)
         /\ ~cancelTrade(tradeId, team)
  /\ (last'.err # "" /\ last'.op \in {"acceptTrade", "rejectTrade", "cancelTrade"})
       => facts' = facts

\* C11: a proposal's status only moves from PENDING to ACCEPTED, REJECTED,
\* CANCELLED or EXPIRED; accept, reject and cancel of a proposal that is not
\* PENDING fail and change nothing; TRADE rows exist for a proposal if and only
\* if it is ACCEPTED.
C11_TradeStatusOnlyLeavesPending ==
  []TradeRowsIffAccepted /\ [][TradeStatusStep]_vars

\* C11 witness: the cancellation of an accepted proposal, whose TRADE rows are
\* in the log, was refused.
C11_Witness ==
  /\ last.op = "cancelTrade"
  /\ last.err = "Only pending proposals can be cancelled"
  /\ \E p \in tradeProposals :
       p.status = "ACCEPTED" /\ TradeRowsOf(rosterMoves, p) # {}

\* Proposal p is PENDING and the step makes it ACCEPTED.
BecomesAccepted(p) ==
  /\ p.status = "PENDING"
  /\ \E q \in tradeProposals' : q.id = p.id /\ q.status = "ACCEPTED"

CountTradeRows(ms) == Cardinality({i \in 1..Len(ms) : ms[i].type = "TRADE"})

NewMoves == Range(rosterMoves') \ Range(rosterMoves)

\* C13: a swap, a waiver pass or a trade acceptance only adds rows that take
\* effect after the day on which they are written, so the holdings of a day
\* that is already past stay as they were.
C13_NoRetroactiveMove ==
  [][(\E m \in NewMoves : m.type # "DRAFT") =>
       /\ \A m \in NewMoves : m.effectiveDate > DayOf(now)
       /\ \A team \in Teams : \A d \in Days :
            d < DayOf(now) =>
              getHoldingsAtDate(rosterMoves', team, d)
                = getHoldingsAtDate(rosterMoves, team, d)]_vars


\* The waiver claims a step inserts, and the effective dates a step gives to
\* the swap it accepts: those of its SWAP rows and of its new claim.
SubmittedClaims == {c \in waiverClaims' : c.id \notin {x.id : x \in waiverClaims}}
SubmittedSwapDates ==
  {m.effectiveDate : m \in {x \in NewMoves : x.reason = "SWAP"}}
    \cup {c.effectiveDate : c \in SubmittedClaims}

IsFirstTradingDayAfter(e, day) ==
  /\ isTradingDayDate(e)
  /\ e > day
  /\ \A d \in (day + 1)..(e - 1) : ~isTradingDayDate(d)

OtherHolders(ms, team, symbol, d) ==
  {t \in Teams \ {team} : symbol \in getHoldingsAtDate(ms, t, d)}

NoSharedSymbol ==
  ownershipMode = "UNIQUE" =>
    \A d \in Days : \A team \in Teams : \A symbol \in getHoldingsAtDate(rosterMoves, team, d) :
      OtherHolders(rosterMoves, team, symbol, d) = {}

\* C15: in a unique-ownership league no symbol is in the reconstructed holdings
\* of two teams at the same date, whatever drafts, waiver submissions and
\* resolutions and trade acceptances came before, and no waiver claim is
\* accepted for a symbol that another team holds on the claim's effective date.
C15_UniqueOwnership ==
  /\ []NoSharedSymbol
  /\ [][\A c \in SubmittedClaims :
          OtherHolders(rosterMoves, c.teamId, c.addSymbol, c.effectiveDate) = {}]_vars


\* Days a and b lie in one Monday-to-Sunday week: no Monday after the earlier
\* one up to the later one.
SameWeek(a, b) ==
  LET lo == IF a <= b THEN a ELSE b
      hi == IF a <= b THEN b ELSE a
  IN  \A x \in (lo + 1)..hi : getUTCDay(x) # 1

\* The accepted swaps of a team submitted on one of the days: its direct ADD
\* rows in a duplicates league, its non-cancelled claims in a unique league.
AcceptedSwaps(team, days) ==
  IF ownershipMode = "UNIQUE"
  THEN Cardinality({c \in waiverClaims :
                      /\ c.teamId = team /\ c.status # "CANCELLED"
                      /\ DayOf(c.createdAt) \in days})
  ELSE Cardinality({i \in 1..Len(rosterMoves) :
                      /\ rosterMoves[i].teamId = team
                      /\ rosterMoves[i].type = "ADD" /\ rosterMoves[i].reason = "SWAP"
                      /\ DayOf(rosterMoves[i].createdAt) \in days})

\* C16: for each team the accepted swaps submitted within one UTC day never
\* exceed the season's maxSwapsPerDay and those submitted within one
\* Monday-to-Sunday UTC week never exceed maxSwapsPerWeek.
C16_SwapLimitsRespected ==
  \A team \in Teams : \A d \in Days :
    /\ AcceptedSwaps(team, {d}) <= season.maxSwapsPerDay
    /\ AcceptedSwaps(team, {x \in Days : SameWeek(x, d)}) <= season.maxSwapsPerWeek

\* A submission on a day without a swap was rejected because the team's swaps
\* of the week had reached the weekly limit.
C16_Witness ==
  /\ last.op = "submitSwap"
  /\ last.err = "Weekly swap limit reached"
  /\ \E team \in Teams :
       /\ AcceptedSwaps(team, {DayOf(now)}) = 0
       /\ AcceptedSwaps(team, {x \in Days : SameWeek(x, DayOf(now))}) = season.maxSwapsPerWeek


\* How often the row r occurs in the log ms.
CountRow(ms, r) == Cardinality({i \in 1..Len(ms) : ms[i] = r})

\* The log grew by exactly the rows of new, once each.
GrewBy(new) ==
  /\ Len(rosterMoves') = Len(rosterMoves) + Cardinality(new)
  /\ \A r \in Range(rosterMoves') :
       CountRow(rosterMoves', r) = CountRow(rosterMoves, r) + (IF r \in new THEN 1 ELSE 0)

DirectSwapWritten(team, dropSymbol, addSymbol) ==
  /\ \E e \in Days :
       GrewBy({Move(team, "DROP", dropSymbol, e, now, "SWAP"),
               Move(team, "ADD", addSymbol, e, now, "SWAP")})
  /\ waiverClaims' = waiverClaims

WaiverClaimWritten(team, dropSymbol, addSymbol) ==
  /\ waiverClaims \subseteq waiverClaims'
  /\ Cardinality(waiverClaims' \ waiverClaims) = 1
  /\ \A c \in waiverClaims' \ waiverClaims :
       /\ c.status = "PENDING" /\ c.teamId = team
       /\ c.dropSymbol = dropSymbol /\ c.addSymbol = addSymbol
  /\ rosterMoves' = rosterMoves
  /\ faabBudget' = faabBudget

\* C17: an accepted submitSwap appends, in a duplicates-allowed league, exactly
\* one DROP row for the drop symbol and one ADD row for the add symbol with the
\* same effective date and creates no waiver claim; in a unique-ownership
\* league it inserts exactly one PENDING waiver claim, appends no roster move
\* and changes no budget.
C17_SwapWritesPairOrClaim ==
  [][\A req \in SwapInputs :
       (Idle /\ submitSwap(req[1], req[2], req[3], req[4])) =>
          IF ownershipMode = "DUPLICATES"
          THEN DirectSwapWritten(req[1], req[2], req[3])
          ELSE WaiverClaimWritten(req[1], req[2], req[3])]_vars

\* A swap was accepted in a unique league: its claim is pending, the log holds
\* the draft rows only and the budgets are untouched.
C17_Witness ==
  /\ ownershipMode = "UNIQUE"
  /\ last = Done
  /\ \E c \in waiverClaims : c.status = "PENDING" /\ c.createdAt = now
  /\ \A m \in Range(rosterMoves) : m.type = "DRAFT"
  /\ \A team \in Teams : faabBudget[team] = DEFAULT_FAAB_BUDGET


\* The proposals a step inserts.
ProposedTrades == {p \in tradeProposals' : p.id \notin {x.id : x \in tradeProposals}}

\* C18: no trade proposal is created by proposeTrade and none becomes ACCEPTED
\* by acceptTrade at an instant whose UTC day is after the season's trade
\* deadline date.
C18_NoTradeAfterDeadline ==
  [][(ProposedTrades # {} \/ \E p \in tradeProposals : BecomesAccepted(p))
       => DayOf(now) <= season.tradeDeadlineDate]_vars

\* The day after the deadline the receiving team's acceptance of a pending
\* proposal was refused.
C18_Witness ==
  /\ last.op = "acceptTrade"
  /\ last.err = "Trade deadline has passed"
  /\ DayOf(now) > season.tradeDeadlineDate
  /\ \E p \in tradeProposals :
       p.status = "PENDING" /\ DayOf(p.createdAt) <= season.tradeDeadlineDate


\* The step is a call of expirePendingTrades that returned: its arguments are
\* in the report it leaves.
ExpireStep == last'.op = "expirePendingTrades" /\ last'.err = ""

ProposalAfter(p) == CHOOSE q \in tradeProposals' : q.id = p.id

\* After the deadline every pending proposal of the league effective on or
\* after the deadline is EXPIRED.
ExpiresFromDeadlineOn ==
  DayOf(last'.atDate) > season.tradeDeadlineDate =>
    \A p \in tradeProposals :
      (/\ p.leagueId = last'.leagueId
       /\ p.status = "PENDING"
       /\ p.effectiveDate >= season.tradeDeadlineDate)
        => ProposalAfter(p).status = "EXPIRED"

\* Proposals of another league or out of PENDING are left as they are, and no
\* proposal is inserted or deleted.
ExpireTouchesPendingOfLeague ==
  /\ {q.id : q \in tradeProposals'} = {p.id : p \in tradeProposals}
  /\ \A p \in tradeProposals :
       (p.leagueId # last'.leagueId \/ p.status # "PENDING") => p \in tradeProposals'

ExpireIdleUntilDeadline ==
  DayOf(last'.atDate) <= season.tradeDeadlineDate => tradeProposals' = tradeProposals

\* C19: expirePendingTrades(league, asOf) with asOf after the trade deadline
\* turns EXPIRED every PENDING proposal of the league whose effective date is on
\* or after the deadline, touches no proposal of another league or out of
\* PENDING, and changes nothing when asOf is on or before the deadline.
C19_ExpireAfterDeadline ==
  [][ExpireStep =>
       /\ ExpiresFromDeadlineOn
       /\ ExpireTouchesPendingOfLeague
       /\ ExpireIdleUntilDeadline]_vars


\* The call that has just returned, as its report tells.
PassReturned == last.op = "processWaiverClaims" /\ last.err = ""
ExpireReturned == last.op = "expirePendingTrades" /\ last.err = ""

\* The step is a pass that returned, run right after a pass for the same date
\* returned.
PassAgainStep ==
  /\ PassReturned
  /\ last'.op = "processWaiverClaims" /\ last'.err = ""
  /\ last'.effectiveDate = last.effectiveDate

\* Right after a pass, a pass for the same date finds no pending claim and
\* decides nothing: no winner, no loser, no budget changed.
SecondPassFindsNothing ==
  PassReturned =>
    LET res == PassResult(last.effectiveDate)
    IN  /\ PendingClaims(last.effectiveDate) = {}
        /\ res.winners = <<>>
        /\ res.lost = {}
        /\ res.budget = faabBudget

\* What the same call of expirePendingTrades, made again at once, does.
ExpireAgain == expirePendingTrades(last.leagueId, last.atDate)

SecondExpireDoesNothing ==
  ExpireReturned =>
    /\ ENABLED ExpireAgain
    /\ ~ENABLED (ExpireAgain /\ ~(facts' = facts /\ last'.expiredCount = 0))

\* C20: processWaiverClaims(league, date) or expirePendingTrades(league, asOf)
\* called a second time with the same arguments, with no other operation in
\* between, changes no claim, proposal, roster move or budget and reports zero
\* processed or expired items.
C20_BulkTransitionsIdempotent ==
  /\ []SecondPassFindsNothing
  /\ []SecondExpireDoesNothing
  /\ [][PassAgainStep =>
          /\ facts' = facts
          /\ last'.processedClaims = 0
          /\ last'.wonClaims = 0
          /\ last'.lostClaims = 0]_vars

\* A pass was run again for a date whose claim the first pass had settled, and
\* found nothing to process.
C20_Witness ==
  /\ last.op = "processWaiverClaims" /\ last.err = ""
  /\ last.processedClaims = 0
  /\ \E c \in waiverClaims : c.status = "WON" /\ c.effectiveDate = last.effectiveDate
  /\ \E m \in Range(rosterMoves) : m.reason = "WAIVER" /\ m.createdAt = now


\* The status of the proposal p is the same after the step.
StatusKept(p) == \E q \in tradeProposals' : q.id = p.id /\ q.status = p.status

\* C21: a PENDING trade proposal is accepted or rejected only by its receiving
\* team and cancelled only by its proposing team: no call of acceptTrade,
\* rejectTrade or cancelTrade made for another team, or without naming the
\* acting team, changes the proposal's status.
C21_OnlyCounterpartyActs ==
  [][\A p \in tradeProposals : \A actor \in Teams \cup {NoActor} :
       /\ (/\ actor # p.toTeamId
           /\ acceptTrade(p.id, actor) \/ rejectTrade(p.id, actor)) => StatusKept(p)
       /\ (actor # p.fromTeamId /\ cancelTrade(p.id, actor)) => StatusKept(p)]_vars


(***************************************************************************)
(* Score cache against recomputation.                                      *)
(***************************************************************************)
TeamRows(team) == {r \in teamDayScores : r.teamId = team}

\* The rows of a team after its cached rows were deleted and calculateTeamRange
\* ran over the range of dates they covered.
Recomputed(team) ==
  LET cached == TeamRows(team)
  IN  RangeCache(teamDayScores \ cached, team,
                 RangeDates(MinDate(cached), MaxDate(cached)), TRUE) \ (teamDayScores \ cached)

\* C22: in every state, deleting the cached rows of a team and recomputing them
\* with calculateTeamRange over the range they covered gives back, for every
\* (team, date) that was cached, the cached points and breakdown.
C22_RecomputationInvariance ==
  \A team \in Teams : \A r \in TeamRows(team) : r \in Recomputed(team)


\* A fresh getOrCalculateScore has just returned and the same call, made again
\* at once, is served from the cache.
FreshThenCached ==
  /\ last.op = "getOrCalculateScore" /\ ~last.cached
  /\ last'.op = "getOrCalculateScore" /\ last'.cached
  /\ last'.teamId = last.teamId /\ last'.date = last.date

\* C23: with nothing written in between, getOrCalculateScore(team, date) served
\* from the cache returns the DayScore the fresh computation returned: the same
\* points, breakdown, missing symbols and isTradingDay flag.
C23_CachedEqualsFresh ==
  [][FreshThenCached => last'.score = last.score]_vars


\* The dates scores are asked for: the window of the league and a bank holiday
\* that falls on a weekday.
WeekdayHoliday == YearStart(6)
ScoredDates == 0..(DayOf(MaxInstant) + 1) \cup {WeekdayHoliday}
Weekend(d) == getUTCDay(d) \in {0, 6}

\* C24: calculateTeamDay for a weekend day or a holiday returns points 0, an
\* empty breakdown and isTradingDay = FALSE, whatever the team holds and
\* whatever prices are stored.
C24_NonTradingDayScoresZero ==
  \A team \in Teams : \A date \in ScoredDates :
    (Weekend(date) \/ date \in UK_BANK_HOLIDAYS) =>
      LET score == calculateTeamDay(team, date)
      IN  /\ score.points = 0
          /\ DOMAIN score.breakdown = {}
          /\ ~score.isTradingDay

\* A team with a full roster was scored on Saturday.
C24_Witness ==
  /\ last.op = "getOrCalculateScore" /\ ~last.cached
  /\ Weekend(last.date)
  /\ Cardinality(getHoldingsAtDate(rosterMoves, last.teamId, last.date)) = ROSTER_SIZE
  /\ last.score.points = 0 /\ ~last.score.isTradingDay
  /\ getUTCDay(WeekdayHoliday) \notin {0, 6}


\* The latest trading day before d by the weekday/holiday rule.
LatestTradingDayBefore(d) ==
  CHOOSE p \in (d - 14)..(d - 1) :
    isTradingDayDate(p) /\ \A q \in (p + 1)..(d - 1) : ~isTradingDayDate(q)

\* The stored close of a symbol on a date is absent.
CloseAbsent(symbol, date) == \A r \in priceDaily : ~(r.symbol = symbol /\ r.date = date)
CloseZero(symbol, date) ==
  \E r \in priceDaily : r.symbol = symbol /\ r.date = date /\ r.adjClose = 0
CloseOf(symbol, date) ==
  (CHOOSE r \in priceDaily : r.symbol = symbol /\ r.date = date).adjClose

CannotBeScored(symbol, date) ==
  \/ CloseAbsent(symbol, date)
  \/ CloseAbsent(symbol, LatestTradingDayBefore(date))
  \/ CloseZero(symbol, LatestTradingDayBefore(date))

\* p is the multiple of 1/10000 nearest to
\* (today - previous) / previous * 100 * multiplier * factor, factor = 1 / halves.
IsNormalPoints(p, today, previous, halves) ==
  LET num == (today - previous) * 100 * DEFAULT_SCORING_MULTIPLIER * 10000
      den == previous * halves
  IN  /\ 2 * den * p <= 2 * num + den
      /\ 2 * den * p > 2 * num - den

\* C25: on a trading day a held symbol whose close of the date is absent, or
\* whose close of the previous trading day is absent or zero, contributes 0
\* points and is listed in missingSymbols; every other held symbol contributes
\* its normal points and is not listed; the call returns a score in each case.
C25_MissingPriceScoresZero ==
  \A team \in Teams : \A date \in ScoredDates :
    isTradingDayDate(date) =>
      LET score == calculateTeamDay(team, date)
          holdings == getHoldingsAtDate(rosterMoves, team, date)
          added == HoldingAddedDate(rosterMoves, team, date)
      IN  /\ score.isTradingDay
          /\ DOMAIN score.breakdown = holdings
          /\ score.missingSymbols = {s \in holdings : CannotBeScored(s, date)}
          /\ \A s \in holdings :
               IF CannotBeScored(s, date) THEN score.breakdown[s] = 0
               ELSE IsNormalPoints(score.breakdown[s], CloseOf(s, date),
                                   CloseOf(s, LatestTradingDayBefore(date)),
                                   IF added[s] = date THEN 2 ELSE 1)
          /\ score.points = SumPoints(holdings, score.breakdown)

\* Thursday was scored with "A4" (previous close zero) and "A6" (previous close
\* absent) missing and "A1" scored, and Friday is cached with "A8" (close of
\* the date absent) at zero next to a scored "A1".
C25_Witness ==
  /\ last.op = "getOrCalculateScore" /\ ~last.cached
  /\ last.teamId = "t1" /\ last.date = 0
  /\ last.score.missingSymbols = {"A4", "A6"}
  /\ CloseZero("A4", 0 - 1) /\ CloseAbsent("A6", 0 - 1)
  /\ last.score.breakdown["A1"] # 0
  /\ \E r \in CachedRows("t1", 1) :
       /\ CloseAbsent("A8", 1) /\ ~CloseAbsent("A1", 1)
       /\ r.breakdown["A8"] = 0 /\ r.breakdown["A1"] # 0
       /\ r = ScoreRow(calculateTeamDay("t1", 1))


\* The effective date of the latest acquisition of a held symbol up to date.
AcquiredOn(team, symbol, date) ==
  LET adds == {i \in 1..Len(rosterMoves) :
                 /\ rosterMoves[i].teamId = team /\ rosterMoves[i].symbol = symbol
                 /\ rosterMoves[i].type # "DROP"
                 /\ rosterMoves[i].effectiveDate <= date}
  IN  rosterMoves[CHOOSE i \in adds : \A j \in adds :
                    rosterMoves[j].effectiveDate <= rosterMoves[i].effectiveDate].effectiveDate

\* C26: a held symbol that can be scored contributes half its raw points
\* (firstDayPenalty 0.5) on the effective date of its acquisition and its full
\* raw points on every later date while it stays held.
C26_PenaltyOnFirstDayOnly ==
  \A team \in Teams : \A date \in ScoredDates :
    isTradingDayDate(date) =>
      LET score == calculateTeamDay(team, date)
      IN  \A s \in getHoldingsAtDate(rosterMoves, team, date) :
            ~CannotBeScored(s, date) =>
              IF AcquiredOn(team, s, date) = date
              THEN IsNormalPoints(score.breakdown[s], CloseOf(s, date),
                                  CloseOf(s, LatestTradingDayBefore(date)), 2)
              ELSE IsNormalPoints(score.breakdown[s], CloseOf(s, date),
                                  CloseOf(s, LatestTradingDayBefore(date)), 1)

\* "A1", drafted with effective date Thursday, was scored at half its raw
\* points for Thursday and is now scored at its full raw points for Friday.
C26_Witness ==
  /\ last.op = "getOrCalculateScore" /\ ~last.cached
  /\ last.teamId = "t1" /\ last.date = 1
  /\ "A1" \in getHoldingsAtDate(rosterMoves, "t1", 1)
  /\ AcquiredOn("t1", "A1", 1) = 0
  /\ ~CannotBeScored("A1", 1) /\ ~CannotBeScored("A1", 0)
  /\ IsNormalPoints(last.score.breakdown["A1"], CloseOf("A1", 1), CloseOf("A1", 0), 1)
  /\ last.score.breakdown["A1"] # 0
  /\ \E r \in CachedRows("t1", 0) :
       /\ "A1" \in DOMAIN r.breakdown
       /\ IsNormalPoints(r.breakdown["A1"], CloseOf("A1", 0), CloseOf("A1", 0 - 1), 2)
       /\ ~IsNormalPoints(r.breakdown["A1"], CloseOf("A1", 0), CloseOf("A1", 0 - 1), 1)


\* A cached row matches the filters of an invalidation: each filter that was
\* given holds for it.
MatchesFilters(r, req) ==
  /\ req[1] = {} \/ r.teamId \in req[1]
  /\ req[2] = {} \/ r.date >= MinDate({[date |-> d] : d \in req[2]})
  /\ req[3] = {} \/ r.date <= MinDate({[date |-> d] : d \in req[3]})

SourceFactsKept ==
  UNCHANGED <<rosterMoves, priceDaily, tradingCalendar, waiverClaims, tradeProposals,
              faabBudget, season, leagueStatus>>

\* invalidateScores removes the matching rows, keeps the others and the
\* source facts.
InvalidateDeletesMatching ==
  \A req \in InvalidateInputs :
    invalidateScores(req[1], req[2], req[3]) =>
      /\ \A r \in teamDayScores : r \in teamDayScores' <=> ~MatchesFilters(r, req)
      /\ teamDayScores' \subseteq teamDayScores
      /\ SourceFactsKept

\* Right after an invalidation, a read of a key without a row computes the
\* score and inserts its row.
NextReadRecomputes ==
  \A req \in ScoreInputs :
    (/\ last.op = "invalidateScores"
     /\ CachedRows(req[1], req[2]) = {}
     /\ getOrCalculateScore(req[1], req[2], FALSE)) =>
      /\ ~last'.cached
      /\ last'.score = calculateTeamDay(req[1], req[2])
      /\ \E r \in teamDayScores' :
           /\ r.teamId = req[1] /\ r.date = req[2]
           /\ r.points = last'.score.points /\ r.breakdown = last'.score.breakdown

\* C27: invalidateScores(team?, fromDate?, toDate?) deletes exactly the cached
\* rows that match every given filter (all rows without a filter) and leaves
\* roster moves, prices, claims, proposals, budgets and the other rows alone;
\* the next getOrCalculateScore of a deleted key recomputes and re-inserts it.
C27_InvalidateDeletesExactlyMatching ==
  [][InvalidateDeletesMatching /\ NextReadRecomputes]_vars

\* An invalidation has just run on a cache that held rows of both teams: the
\* rows of "t1" are gone and the row of "t2" is still there.
C27_Witness ==
  /\ last.op = "invalidateScores"
  /\ leagueStatus = "ACTIVE"
  /\ \A req \in ScoreInputs : req[1] = "t1" => CachedRows(req[1], req[2]) = {}
  /\ \E r \in teamDayScores : r.teamId = "t2" /\ DOMAIN r.breakdown # {}


(***************************************************************************)
(* validateRoster against its three rules.                                 *)
(***************************************************************************)
HeldInTier(holdings, t) == {s \in holdings : InstrumentTier[s] = t}

\* The summed tier cost, tier by tier.
RECURSIVE CostUpToTier(_, _)
CostUpToTier(holdings, t) ==
  IF t = 0 THEN 0
  ELSE TIER_COSTS[t] * Cardinality(HeldInTier(holdings, t)) + CostUpToTier(holdings, t - 1)

HasError(validation, e) == \E i \in 1..Len(validation.errors) : validation.errors[i] = e

\* C28: validateRoster(holdings, budget) is valid exactly when there are 8
\* holdings, each tier 1..5 holds at least one and the summed tier cost is at
\* most the budget; every violated rule has its own reason in errors, a missing
\* tier by its number; errors is empty exactly when isValid; holdingCount,
\* totalCost and tierCounts are the actual count, sum and per-tier counts.
C28_ValidateRosterRules ==
  last.op = "validateRoster" =>
    LET holdings == last.holdings
        v == last.validation
        sizeOk == Cardinality(holdings) = ROSTER_SIZE
        tiersOk == \A t \in 1..TIER_COUNT : HeldInTier(holdings, t) # {}
        costOk == CostUpToTier(holdings, TIER_COUNT) <= last.budget
    IN  /\ v.isValid <=> (sizeOk /\ tiersOk /\ costOk)
        /\ HasError(v, RosterError("size", 0)) <=> ~sizeOk
        /\ \A t \in 1..TIER_COUNT :
             HasError(v, RosterError("tier", t)) <=> HeldInTier(holdings, t) = {}
        /\ HasError(v, RosterError("cost", 0)) <=> ~costOk
        /\ \A i, j \in 1..Len(v.errors) : v.errors[i] = v.errors[j] => i = j
        /\ (v.errors = <<>>) <=> v.isValid
        /\ v.holdingCount = Cardinality(holdings)
        /\ v.totalCost = CostUpToTier(holdings, TIER_COUNT)
        /\ \A t \in 1..TIER_COUNT : v.tierCounts[t] = Cardinality(HeldInTier(holdings, t))

\* Portfolio A (tiers 1,2,3,4,5,4,5,3; cost 84) was validated against the
\* default budget and found valid.
C28_Witness ==
  /\ last.op = "validateRoster"
  /\ last.holdings = Range(PortfolioA) /\ last.budget = DEFAULT_BUDGET
  /\ last.validation.isValid /\ last.validation.totalCost = 84

\* A roster of seven without a Tier 5 holding was found invalid for its size
\* and for Tier 5.
C28_WitnessInvalid ==
  /\ last.op = "validateRoster"
  /\ last.holdings = (Range(PortfolioA) \ {"A5", "A7"}) \cup {"B1"}
  /\ ~last.validation.isValid
  /\ HasError(last.validation, RosterError("size", 0))
  /\ HasError(last.validation, RosterError("tier", 5))


(***************************************************************************)
(* Calendar lookups against the weekday/holiday rule.                      *)
(***************************************************************************)
\* The years with rows in the calendar table.
PopulatedYears == {YearOf(r.date) : r \in tradingCalendar}

\* C29: whatever years are populated, getNextTradingDay(d) returns d when d is
\* a trading day and otherwise the earliest trading day after d by the
\* weekday/holiday rule: the result is a trading day, not before d, and no
\* trading day lies between d and the result.
C29_NextTradingDayByRule ==
  last.op = "getNextTradingDay" =>
    /\ last.result >= last.date
    /\ isTradingDayDate(last.result)
    /\ \A x \in last.date..(last.result - 1) : ~isTradingDayDate(x)


\* C30: whatever years are populated, getPrevTradingDay(d) returns a trading
\* day strictly before d, the latest one: no trading day lies strictly between
\* the result and d, also when d itself is a trading day.
C30_PrevTradingDayIsLatest ==
  last.op = "getPrevTradingDay" =>
    /\ last.result < last.date
    /\ isTradingDayDate(last.result)
    /\ \A x \in (last.result + 1)..(last.date - 1) : ~isTradingDayDate(x)


(***************************************************************************)
(* Calls in progress at the same time.                                     *)
(***************************************************************************)
\* C31: however getOrCalculateScore calls for the same (team, date) interleave
\* while the source facts stay as they are, the cache never holds two rows of
\* one key, and after a call wrote, the row of its key is the only one and has
\* the points and breakdown of calculateTeamDay on those facts.
C31_ConcurrentScoresConverge ==
  /\ \A r1, r2 \in teamDayScores :
       (r1.teamId = r2.teamId /\ r1.date = r2.date) => r1 = r2
  /\ (last.op = "getOrCalculateScore" /\ ~last.cached) =>
       CachedRows(last.teamId, last.date) =
         {ScoreRow(calculateTeamDay(last.teamId, last.date))}

\* A forced call has just overwritten the row of Friday, which the other
\* caller, still in progress with the same key, is about to write again.
C31_Witness ==
  /\ last.op = "getOrCalculateScore" /\ ~last.cached
  /\ last.teamId = "t1" /\ last.date = 1
  /\ last.score.points # 0
  /\ \E c \in Callers :
       /\ inFlight[c].pc = "cacheTeamDayScore"
       /\ inFlight[c].dayScore.teamId = "t1" /\ inFlight[c].dayScore.date = 1


\* The dates of the results of a calculateTeamRange report, in their order.
ResultDates == [i \in 1..Len(last.results) |-> last.results[i].date]
Ascending(seq) == \A i, j \in 1..Len(seq) : i < j => seq[i] < seq[j]
RangeOf(report) == report.startDate..report.endDate

RangeScoresPricedDays ==
  last.op = "calculateTeamRange" =>
    /\ Ascending(ResultDates)
    /\ Range(ResultDates) =
         {d \in RangeOf(last) : \E r \in priceDaily : r.date = d}
    /\ \A d \in Range(ResultDates) : isTradingDayDate(d)
    /\ \A d \in Range(ResultDates) : CachedRows(last.teamId, d) # {}

RangeCachesPricedDaysOnly ==
  last'.op = "calculateTeamRange" =>
    \A r \in teamDayScores' \ teamDayScores :
      /\ r.teamId = last'.teamId /\ r.date \in RangeOf(last')
      /\ isTradingDayDate(r.date)
      /\ \E x \in priceDaily : x.date = r.date

MustBeDifferent == "Drop and add symbols must be different"
SameTeam == "Cannot propose a trade to the same team"

\* A refused call writes nothing.
RefusalWritesNothing == last'.err # "" => facts' = facts

\* A swap request with the given symbols is refused with the given error,
\* whoever asks and whenever.
SwapRefusedWith(drop, add, err) ==
  \A team \in TeamIds, bid \in {0, 10} : submitSwapError(team, drop, add, bid, now) = err

\* A trade a team proposes to itself is refused with SameTeam.
SelfTradeRefused ==
  \A team \in TeamIds : proposeTradeError(team, team, <<"A5">>, <<"B5">>, now) = SameTeam

\* C33 as claimed: submitSwap refuses every request whose normalized symbols
\* are equal with the 'must be different' error and proposeTrade every request
\* to the proposing team with the 'same team' error, before the team, the
\* market hours and the league are looked at, and nothing is written.
C33_EqualSymbolsRefusedFirst ==
  /\ [](/\ \A drop, add \in EarlySymbols :
             normalizeSymbol(drop) = normalizeSymbol(add) =>
               SwapRefusedWith(drop, add, MustBeDifferent)
        /\ SelfTradeRefused)
  /\ [][RefusalWritesNothing]_vars

\* C33, amended: the same for requests whose normalized symbols are equal and
\* not empty; a request with an empty normalized symbol is refused before
\* that, with the 'symbols are required' error, and writes nothing either.
C33_EqualNonEmptySymbolsRefusedFirst ==
  /\ [](/\ \A drop, add \in EarlySymbols :
             /\ (normalizeSymbol(drop) = normalizeSymbol(add) /\ normalizeSymbol(drop) # "")
                  => SwapRefusedWith(drop, add, MustBeDifferent)
             /\ (normalizeSymbol(drop) = "" \/ normalizeSymbol(add) = "")
                  => SwapRefusedWith(drop, add, "Drop and add symbols are required")
        /\ SelfTradeRefused)
  /\ [][RefusalWritesNothing]_vars

\* A swap of a symbol for itself in another spelling, asked for by an unknown
\* team while the market is open, has just been refused as 'must be different'.
C33_Witness ==
  /\ last.op = "submitSwap" /\ last.err = MustBeDifferent
  /\ isMarketOpen(now)
  /\ leagueStatus # "ACTIVE"

\* A trade proposed to the proposing team while the market is open has just
\* been refused as 'same team'.
C33_WitnessTrade ==
  /\ last.op = "proposeTrade" /\ last.err = SameTeam
  /\ isMarketOpen(now)


(***************************************************************************)
(* The market session.                                                     *)
(***************************************************************************)
\* The London date and time of day of a UTC instant, counted in minutes since
\* the midnight that begins day 0.
LondonMinutes(utcDay, utcMinute) ==
  utcDay * MinutesPerDay + utcMinute + LondonOffset(utcDay, utcMinute)
LondonDate(utcDay, utcMinute) == LondonMinutes(utcDay, utcMinute) \div MinutesPerDay
LondonTimeOfDay(utcDay, utcMinute) == LondonMinutes(utcDay, utcMinute) % MinutesPerDay

\* Monday to Friday, no bank holiday, 08:00 <= t < 16:30, all in London time.
InSession(utcDay, utcMinute) ==
  /\ getUTCDay(LondonDate(utcDay, utcMinute)) \in 1..5
  /\ LondonDate(utcDay, utcMinute) \notin UK_BANK_HOLIDAYS
  /\ LondonTimeOfDay(utcDay, utcMinute) >= Minutes(8, 0)
  /\ LondonTimeOfDay(utcDay, utcMinute) < Minutes(16, 30)

\* The same session on the UTC clock: 08:00 to 16:30 in winter, 07:00 to 15:30
\* in summer, on a UTC day that is a trading day.
InSessionUtc(utcDay, utcMinute) ==
  /\ isTradingDayDate(utcDay)
  /\ IF utcDay > SummerStart
     THEN utcMinute >= Minutes(7, 0) /\ utcMinute < Minutes(15, 30)
     ELSE utcMinute >= Minutes(8, 0) /\ utcMinute < Minutes(16, 30)

\* No swap is submitted, no trade proposed and none accepted at this instant.
NothingCommitted ==
  /\ \A req \in EarlySwapInputs : ~submitSwap(req[1], req[2], req[3], req[4])
  /\ \A req \in EarlyTradeInputs : ~proposeTrade(req[1], req[2], req[3], req[4])
  /\ \A tradeId \in TradeIds : ~acceptTrade(tradeId, "t2")

\* C34: isMarketOpen(instant) is true exactly when the instant, in London
\* local time, falls on a Monday-Friday that is no bank holiday at a time of
\* day t with 08:00 <= t < 16:30; and while isMarketOpen is true of the
\* current instant no submitSwap, proposeTrade or acceptTrade succeeds and a
\* refused call changes no stored fact.
C34_MarketOpenInLondonSession ==
  /\ [](last.op = "isMarketOpen" =>
          /\ last.result <=> InSession(last.date, last.minute)
          /\ last.result <=> InSessionUtc(last.date, last.minute))
  /\ [][/\ isMarketOpen(now) => NothingCommitted
        /\ last'.err # "" => facts' = facts]_vars

\* isMarketOpen has just answered TRUE for 07:00 UTC of a summer weekday,
\* which is 08:00 in London.
C34_Witness ==
  /\ last.op = "isMarketOpen" /\ last.result
  /\ last.date > SummerStart /\ last.minute = Minutes(7, 0)

\* An acceptance of a pending trade has just been refused because the market
\* is open.
C34_WitnessRefused ==
  /\ last.op = "acceptTrade"
  /\ last.err = "Trades are only allowed when the market is closed"
  /\ isMarketOpen(now)
  /\ \E p \in tradeProposals : p.status = "PENDING"


(***************************************************************************)
(* Concurrent price syncs.                                                 *)
(***************************************************************************)
OneRowPerKey == \A r1, r2 \in priceDaily : SameKey(r1, r2) => r1 = r2

\* A caller that has fetched bars can write them: the upsert raises no
\* conflict.
UpsertNeverConflicts ==
  \A caller \in Callers : inFlight[caller].pc = "upsert" => ENABLED SyncUpserts(caller)

\* A step that changes the stored close of a key stamps the row with the
\* instant of the write.
ChangedCloseIsRestamped ==
  \A r \in priceDaily : \A w \in priceDaily' :
    (SameKey(r, w) /\ r.adjClose # w.adjClose) => w.fetchedAt = now

\* C35: after any number of price-sync runs, one after the other or by two
\* callers filling the same gap at the same time, price_daily holds exactly
\* one row per (symbol, date), a caller that has fetched bars can always write
\* them, and a write that changes the stored close of an existing key sets
\* that row's fetch timestamp to the instant of the write.
C35_PriceSyncIdempotent ==
  /\ [](OneRowPerKey /\ UpsertNeverConflicts)
  /\ [][ChangedCloseIsRestamped]_vars

\* Two callers fetched the same gap; one has written its bars, and the other
\* is about to write a restated close over a row fetched at an earlier
\* instant.
C35_Witness ==
  \E caller \in Callers :
    /\ inFlight[caller].pc = "upsert"
    /\ \E b \in inFlight[caller].bars : \E r \in priceDaily :
         SameKey(r, b) /\ r.adjClose # b.adjClose /\ r.fetchedAt < now

\* Both callers have returned and the gap is filled once.
C35_WitnessFilled ==
  /\ Quiet /\ last.op = "ensurePricesUpToWithReport" /\ last.err = ""
  /\ \E r \in priceDaily : r.symbol = "A5" /\ r.date = 1 /\ r.adjClose # ProviderClose("A5", 1)


(***************************************************************************)
(* The draft and the activation of the league.                             *)
(***************************************************************************)
HasPortfolio(ms, team) == Len(DraftMovesOf(ms, team)) = ROSTER_SIZE
EveryTeamDrafted == \A team \in teams : HasPortfolio(rosterMoves, team)

\* The league becomes ACTIVE only in a step that adds the DRAFT moves of a
\* team and leaves every team of the league with a portfolio.
ActivatedByLastDraft ==
  (leagueStatus # "ACTIVE" /\ leagueStatus' = "ACTIVE") =>
    /\ \E team \in teams' :
         /\ DraftMovesOf(rosterMoves, team) = <<>>
         /\ HasPortfolio(rosterMoves', team)
    /\ teams' # {}
    /\ \A team \in teams' : HasPortfolio(rosterMoves', team)

\* The DRAFT moves a team has submitted are never added to.
DraftsAtMostOnce ==
  \A team \in Teams :
    DraftMovesOf(rosterMoves, team) # <<>> =>
      DraftMovesOf(rosterMoves', team) = DraftMovesOf(rosterMoves, team)

\* The steps of the draft: activation by the last portfolio, one portfolio a
\* team.
C36_DraftSteps == [][ActivatedByLastDraft /\ DraftsAtMostOnce]_vars

\* C36: the league becomes ACTIVE only in the selectPortfolio call after which
\* every team has a submitted portfolio of 8 DRAFT moves, a team submits a
\* portfolio at most once, and whenever the league is ACTIVE every team of it
\* has a submitted portfolio, whenever its teams were created.
C36_ActiveMeansEveryTeamDrafted ==
  /\ [](leagueStatus = "ACTIVE" => EveryTeamDrafted)
  /\ [][ActivatedByLastDraft /\ DraftsAtMostOnce]_vars

\* The league has become ACTIVE by the draft of its last team.
C36_Witness ==
  /\ leagueStatus = "ACTIVE" /\ teams = Teams /\ EveryTeamDrafted

\* A team was created in an ACTIVE league: it has no portfolio and its draft is
\* refused.
C36_TeamWithoutPortfolio ==
  /\ leagueStatus = "ACTIVE"
  /\ \E team \in teams : DraftMovesOf(rosterMoves, team) = <<>>
  /\ last.op = "selectPortfolio" /\ last.err = "League is not in a draft state"


(***************************************************************************)
(* cancelWaiverClaim against processWaiverClaims.                          *)
(***************************************************************************)
\* The WAIVER rows written for a claim.
WaiverRowsOf(c) ==
  {i \in 1..Len(rosterMoves) :
     /\ rosterMoves[i].reason = "WAIVER" /\ rosterMoves[i].teamId = c.teamId
     /\ rosterMoves[i].effectiveDate = c.effectiveDate
     /\ rosterMoves[i].symbol \in {c.addSymbol, c.dropSymbol}}

\* The bids deducted from a team's budget are those of its WON claims.
DeductedForWon(team) ==
  faabBudget[team] =
    DEFAULT_FAAB_BUDGET - SumBids({c \in waiverClaims : c.teamId = team /\ c.status = "WON"})

\* No step turns WON or LOST into CANCELLED.
DecidedNeverCancelled ==
  \A c \in waiverClaims : \A d \in waiverClaims' :
    (c.id = d.id /\ c.status \in {"WON", "LOST"}) => d.status # "CANCELLED"

\* C37: however cancelWaiverClaim (select, then update) and processWaiverClaims
\* interleave on a claim, a CANCELLED claim has no DROP/ADD move and no budget
\* deduction committed for it, and WON or LOST is never overwritten by
\* CANCELLED.
C37_CancelledClaimHasNoEffect ==
  /\ [](\A c \in waiverClaims :
          c.status = "CANCELLED" => (WaiverRowsOf(c) = {} /\ DeductedForWon(c.teamId)))
  /\ [][DecidedNeverCancelled]_vars

\* The pass has committed the winner's moves and budget, and the claim now
\* reads CANCELLED.
C37_CancelledAfterWon ==
  \E c \in waiverClaims :
    /\ c.status = "CANCELLED" /\ WaiverRowsOf(c) # {}
    /\ faabBudget[c.teamId] = DEFAULT_FAAB_BUDGET - c.faabBid


(***************************************************************************)
(* Concurrent responses to a trade proposal.                               *)
(***************************************************************************)
\* C38: however acceptTrade interleaves with another acceptTrade, rejectTrade,
\* cancelTrade or expirePendingTrades on a proposal, the TRADE moves of the
\* proposal are committed at most once, and once no call is in progress a
\* proposal with committed moves is ACCEPTED.
C38_TradeMovesOnceAndOnlyIfAccepted ==
  \A p \in tradeProposals :
    /\ Cardinality(TradeRowsOf(rosterMoves, p)) <= Len(TradeMoves(p, now))
    /\ (Quiet /\ TradeRowsOf(rosterMoves, p) # {}) => p.status = "ACCEPTED"

\* Two acceptances have both committed the moves of the proposal.
C38_MovesCommittedTwice ==
  \E p \in tradeProposals :
    Quiet /\ Cardinality(TradeRowsOf(rosterMoves, p)) = 2 * Len(TradeMoves(p, now))

\* The moves of a proposal are committed and its status is REJECTED or
\* CANCELLED.
C38_MovesOfRefusedProposal ==
  \E p \in tradeProposals :
    Quiet /\ TradeRowsOf(rosterMoves, p) # {} /\ p.status \in {"REJECTED", "CANCELLED"}


(***************************************************************************)
(* Concurrent swaps of a team in a league that allows duplicates.          *)
(***************************************************************************)
\* The ADD rows of direct swaps a team created inside [fromDay, toDay].
SwapAdds(team, fromDay, toDay) ==
  {i \in 1..Len(rosterMoves) :
     /\ rosterMoves[i].teamId = team /\ rosterMoves[i].type = "ADD"
     /\ rosterMoves[i].reason = "SWAP"
     /\ DayOf(rosterMoves[i].createdAt) >= fromDay
     /\ DayOf(rosterMoves[i].createdAt) <= toDay}

WithinSwapLimits(team) ==
  \A day \in 0..DayOf(MaxInstant) :
    /\ Cardinality(SwapAdds(team, day, day)) <= season.maxSwapsPerDay
    /\ Cardinality(SwapAdds(team, getUtcWeekStart(day), getUtcWeekStart(day) + 6))
         <= season.maxSwapsPerWeek

\* C39: however two submitSwap calls of a team interleave in a league that
\* allows duplicates, the team's swaps of a day and of a week stay within the
\* season's limits, and the roster reconstructed for any date from the draft
\* on has exactly 8 holdings.
C39_ConcurrentSwapsKeepLimitsAndRoster ==
  ownershipMode = "DUPLICATES" =>
    \A team \in Teams :
      /\ WithinSwapLimits(team)
      /\ HasDrafted(team) =>
           \A date \in Days :
             Cardinality(getHoldingsAtDate(rosterMoves, team, date)) = ROSTER_SIZE

\* Two swaps of the same day are committed for a team allowed one a day.
C39_TwoSwapsInADay ==
  /\ ownershipMode = "DUPLICATES" /\ Quiet
  /\ \E team \in Teams, day \in 0..DayOf(MaxInstant) :
       Cardinality(SwapAdds(team, day, day)) > season.maxSwapsPerDay

\* The roster of a drafted team has 7 or 9 holdings.
C39_RosterOffSize ==
  /\ ownershipMode = "DUPLICATES" /\ Quiet
  /\ \E team \in Teams, date \in Days :
       /\ HasDrafted(team)
       /\ Cardinality(getHoldingsAtDate(rosterMoves, team, date)) # ROSTER_SIZE


(***************************************************************************)
(* The waiver pass and the score cache.                                    *)
(***************************************************************************)
\* The standing points of the pass when the cache holds the given rows.
StandingPointsOf(cache, effectiveDate) ==
  [t \in Teams |-> SumRows({r \in cache : r.teamId = t /\ r.date <= effectiveDate})]

\* The ids of the claims the pass for effectiveDate marks WON when the cache
\* holds the given rows, every source fact being as it is.
WinnersWith(cache, effectiveDate) ==
  LET res == ResolveGroups(PassGroups(effectiveDate), 1, PendingClaims(effectiveDate),
                           StandingPointsOf(cache, effectiveDate), PassStart(effectiveDate))
  IN  {res.winners[i].id : i \in 1..Len(res.winners)}

\* C40: the claims processWaiverClaims marks WON do not depend on which
\* DayScore rows the cache holds: with the same roster moves, claims, prices
\* and budgets the pass selects the same winners with the cache as it is and
\* with the cache emptied by invalidateScores.
C40_WinnersIndependentOfCache ==
  \A date \in WaiverDateInputs :
    WinnersWith(teamDayScores, date) = WinnersWith(teamDayScores \ InvalidatedRows({}, {}, {}), date)

\* Two teams bid the same for the same free agent, a score of one of them is
\* cached, and the pass picks another winner than it would with an empty cache.
C40_CacheDecidesWinner ==
  \E date \in WaiverDateInputs :
    /\ teamDayScores # {}
    /\ WinnersWith(teamDayScores, date) # WinnersWith(teamDayScores \ InvalidatedRows({}, {}, {}), date)

====
